---- MODULE Spec2Model ----
(***************************************************************************)
(* Resonance.ai v13.3 WebSocket breakout scanner                           *)
(* (src/vendor/resonance-ai-scannerv13/resonance_scannerv13_3_ws.py).      *)
(*                                                                         *)
(* One module, several specifications over the same variables:             *)
(*   SpecAgg    CandleAgg under its lock: on_trade, flush_if_due, clock.   *)
(* A specification leaves the variables of the other parts at their        *)
(* initial value.                                                          *)
(***************************************************************************)
EXTENDS Integers, Sequences, FiniteSets, TLC

VARIABLES
    cur,      \* CandleAgg.cur : pid -> in-progress candle record, or None
    hist,     \* CandleAgg.hist: pid -> sequence of arrays <<b, o, h, l, c, v>>
    now,      \* the wall clock, time.time()
    ntrades,  \* trades delivered so far (bounds the run)
    run,      \* history variable: pid -> the <<price, size>> trades applied to the in-progress candle since it was opened
    last,     \* history variable: the operation that produced this state
    _last_alert_ts,  \* the module-level dict of is_duplicate: pair -> time of the last accepted alert
    cset,     \* the window handed to is_breakout_window
    brk,      \* what is_breakout_window returned for cset, or None
    emit,     \* WS_EMIT: "on_minute" or "on_trade"
    gen,      \* the CandleAgg the main thread's `agg` names: 0 at startup, +1 per universe reload
    mpc,      \* where the main thread is
    fpc,      \* gen -> where the feed thread started for CandleAgg gen is ("none": not started)
    lockh,    \* gen -> holder of that CandleAgg's lock: "free", "main" or "feed"
    pairs,    \* the main thread's `pairs`: the tracked universe
    events,   \* history variable: the DetectionEvents accepted so far (line 466), in order
    aggs,     \* gen -> the CandleAgg built at startup (0) or by the gen-th reload: [cur, hist]
    sub,      \* gen -> CBWebSocket.pairs of the feed thread of CandleAgg gen
    stop_flag,\* gen -> CBWebSocket.stop_flag of that thread
    ws,       \* gen -> CBWebSocket.ws of that thread: "none", "open" or "closed"
    floc,     \* gen -> the locals of that thread's running callback: pid, cs, and now / last of is_duplicate
    fetched,  \* pid -> the body the REST endpoint answered the startup backfill of pid with
    save,     \* SAVE_DETECTIONS
    jsonl,    \* the lines of the detection log JSONL_PATH, in order
    dlv,      \* the alert being handled past the deduplicator, and who handles it
    websocket,\* the name `websocket` of lines 8-11: "module", or "None" when the import failed
    _circuit_breakers, \* PositionManager._circuit_breakers: symbol -> its CircuitBreaker's fields, or NoCB
    _last_trade_ts,    \* PositionManager._last_trade_ts
    position_base      \* PositionManager.position_base

aggVars == <<cur, hist, ntrades, run>>

dedupVars == <<_last_alert_ts>>

brkVars == <<cset, brk>>

thrVars == <<emit, gen, mpc, fpc, lockh>>

scanVars == <<pairs, events>>

feedVars == <<aggs, sub, stop_flag, ws, floc>>

alertVars == <<fetched, save, jsonl, dlv>>

libVars == <<websocket>>

cbVars == <<_circuit_breakers, _last_trade_ts, position_base>>

vars == <<cur, hist, now, ntrades, run, last, _last_alert_ts, cset, brk, emit, gen, mpc, fpc, lockh,
          pairs, events, aggs, sub, stop_flag, ws, floc, fetched, save, jsonl, dlv, websocket,
          _circuit_breakers, _last_trade_ts, position_base>>

\* the variables SpecAgg leaves alone
nonAgg == <<dedupVars, brkVars, thrVars, scanVars, feedVars, alertVars, libVars, cbVars>>

\* the variables SpecDedup leaves alone
nonDedup == <<aggVars, brkVars, thrVars, scanVars, feedVars, alertVars, libVars, cbVars>>

\* the variables SpecBrk leaves alone
nonBrk == <<aggVars, dedupVars, thrVars, scanVars, feedVars, now, alertVars, libVars, cbVars>>

\* the variables SpecConc leaves alone
nonConc == <<aggVars, dedupVars, brkVars, scanVars, feedVars, now, alertVars, libVars, cbVars>>

\* the variables SpecMinute leaves alone
nonMinute == <<brkVars, thrVars, feedVars, run, alertVars, libVars, cbVars>>

\* the variables SpecReload leaves alone
nonReload == <<cur, hist, run, brkVars, mpc, lockh, alertVars, libVars, cbVars>>

\* the variables SpecBackfill leaves alone
nonBackfill == <<run, brkVars, emit, gen, fpc, lockh, feedVars, save, jsonl, dlv, libVars, cbVars>>

\* the variables SpecSeed leaves alone
nonSeed == <<run, dedupVars, brkVars, thrVars, scanVars, feedVars, alertVars, libVars, cbVars>>

----------------------------------------------------------------------------
(* Bounds of the model and configured values of the program *)

\* instruments of the universe
Pairs == {"A", "B"}

\* SCANNER.LIMITS.CANDLE_INTERVAL_SECONDS as configured for the model
CANDLE_INTERVAL == 2

\* CandleAgg.look, the capacity of a finalized history
Look == 3

\* the clock runs 0 .. MaxTime
MaxTime == 4

\* trade prices are 1 .. MaxPrice (a feed message with price 0 is dropped before on_trade)
MaxPrice == 2

\* number of trades delivered in one behaviour
MaxTrades == 2

None == [none |-> TRUE]

Prices == 1 .. MaxPrice

\* trade sizes offered by the feed
Sizes == {1, 2}

----------------------------------------------------------------------------
(* CandleAgg *)

\* CandleAgg._bucket: int(tsec - (tsec % self.intv))
_bucket(tsec) ==
    tsec - (tsec % CANDLE_INTERVAL)

\* _finalize with lines 319-320 lost: the history is never trimmed
_finalize_untrimmed(h, pid, cd) ==
    [h EXCEPT ![pid] = Append(h[pid], <<cd.b, cd.o, cd.h, cd.l, cd.c, cd.v>>)]

\* CandleAgg._finalize: append [b,o,h,l,c,v] to hist[pid], keep the last `look`
_finalize(h, pid, cd) ==
    LET arr == <<cd.b, cd.o, cd.h, cd.l, cd.c, cd.v>>
        h1  == Append(h[pid], arr)
    IN  [h EXCEPT ![pid] =
            IF Len(h1) > Look THEN SubSeq(h1, Len(h1) - Look + 1, Len(h1)) ELSE h1]

\* on_trade with the test of line 312 lost: the low is never lowered
on_trade_low_kept(c, h, pid, price, size, tsec) ==
    LET b  == _bucket(tsec)
        cd == c[pid]
    IN  IF cd = None \/ cd.b # b
        THEN <<[c EXCEPT ![pid] = [b |-> b, o |-> price, h |-> price,
                                   l |-> price, c |-> price, v |-> size]],
               IF cd # None THEN _finalize(h, pid, cd) ELSE h>>
        ELSE <<[c EXCEPT ![pid] = [cd EXCEPT !.c = price,
                                             !.h = IF price > cd.h THEN price ELSE cd.h,
                                             !.v = cd.v + size]],
               h>>

\* CandleAgg.on_trade, the body under the lock: the new <<cur, hist>>
on_trade(c, h, pid, price, size, tsec) ==
    LET b  == _bucket(tsec)
        cd == c[pid]
    IN  IF cd = None \/ cd.b # b
        THEN <<[c EXCEPT ![pid] = [b |-> b, o |-> price, h |-> price,
                                   l |-> price, c |-> price, v |-> size]],
               IF cd # None THEN _finalize(h, pid, cd) ELSE h>>
        ELSE <<[c EXCEPT ![pid] = [cd EXCEPT !.c = price,
                                             !.h = IF price > cd.h THEN price ELSE cd.h,
                                             !.l = IF price < cd.l THEN price ELSE cd.l,
                                             !.v = cd.v + size]],
               h>>

\* the test of flush_if_due: cd and now_ts - cd["b"] >= self.intv
flush_due(cd, now_ts) ==
    cd # None /\ now_ts - cd.b >= CANDLE_INTERVAL

\* flush_if_due with line 327 lost: the finalized candle stays in progress
flush_if_due_cur_kept(c, h, now_ts) ==
    <<c,
      [p \in Pairs |-> IF flush_due(c[p], now_ts) THEN _finalize(h, p, c[p])[p] ELSE h[p]]>>

\* CandleAgg.flush_if_due, the body under the lock: the new <<cur, hist>>
flush_if_due(c, h, now_ts) ==
    <<[p \in Pairs |-> IF flush_due(c[p], now_ts) THEN None ELSE c[p]],
      [p \in Pairs |-> IF flush_due(c[p], now_ts) THEN _finalize(h, p, c[p])[p] ELSE h[p]]>>

----------------------------------------------------------------------------
(* SpecAgg: the operations of one CandleAgg, each atomic under self.lock *)

NoFin == [p \in Pairs |-> <<>>]

\* CandleAgg.__init__: cur = {}, hist = {}
AggIdle ==
    /\ cur = [p \in Pairs |-> None]
    /\ hist = [p \in Pairs |-> <<>>]
    /\ ntrades = 0
    /\ run = [p \in Pairs |-> <<>>]

\* _last_alert_ts = {}
DedupIdle ==
    _last_alert_ts = <<>>

\* universe reloads in one behaviour
MaxGen == 1

Gens == 0 .. MaxGen

\* no thread running
ThrIdle ==
    /\ emit = "on_minute"
    /\ gen = 0
    /\ mpc = "off"
    /\ fpc = [g \in Gens |-> "none"]
    /\ lockh = [g \in Gens |-> "free"]

\* the locals of a feed thread with no callback running
NoLocals == [pid |-> "A", cs |-> <<>>, t |-> 0, last |-> 0]

\* no CandleAgg of main() built, no feed thread created
FeedIdle ==
    /\ aggs = [g \in Gens |-> [cur |-> [p \in Pairs |-> None], hist |-> [p \in Pairs |-> <<>>]]]
    /\ sub = [g \in Gens |-> {}]
    /\ stop_flag = [g \in Gens |-> FALSE]
    /\ ws = [g \in Gens |-> "none"]
    /\ floc = [g \in Gens |-> NoLocals]

\* a REST answer that is a failure
FetchFailed == [ok |-> FALSE, rows |-> <<>>]

\* no alert past the deduplicator
NoDelivery == [by |-> "none"]

\* the symbols of the PositionManager
Symbols == {"X", "Y"}

\* no CircuitBreaker created for a symbol yet (_circuit_breakers has no such key)
NoCB == [state |-> "absent"]

\* a new PositionManager, lines 24-32 of position_manager.py
CbIdle ==
    /\ _circuit_breakers = [s \in Symbols |-> NoCB]
    /\ _last_trade_ts = 0
    /\ position_base = 0

\* the websocket-client library was imported
LibIdle ==
    websocket = "module"

\* nothing fetched, nothing logged, nothing being delivered
AlertIdle ==
    /\ fetched = [p \in Pairs |-> FetchFailed]
    /\ save = TRUE
    /\ jsonl = <<>>
    /\ dlv = NoDelivery

\* no universe loaded, nothing detected
ScanIdle ==
    /\ pairs = {}
    /\ events = <<>>

\* no window under evaluation
BrkIdle ==
    /\ cset = <<>>
    /\ brk = None

InitAgg ==
    /\ CbIdle
    /\ AggIdle
    /\ AlertIdle
    /\ LibIdle
    /\ DedupIdle
    /\ BrkIdle
    /\ ThrIdle
    /\ ScanIdle
    /\ FeedIdle
    /\ now = 0
    /\ last = [op |-> "init", older |-> FALSE, boundary |-> FALSE, fin |-> NoFin]

\* the feed thread delivers one trade: agg.on_trade(pid, price, size, tsec)
OnTrade ==
    /\ ntrades < MaxTrades
    /\ \E pid \in Pairs, price \in Prices, size \in Sizes, tsec \in 0 .. now :
        LET r      == on_trade(cur, hist, pid, price, size, tsec)
            opens  == cur[pid] = None \/ cur[pid].b # _bucket(tsec)
            closes == cur[pid] # None /\ cur[pid].b # _bucket(tsec)
        IN  /\ cur' = r[1]
            /\ hist' = r[2]
            /\ run' = [run EXCEPT ![pid] = IF opens THEN <<<<price, size>>>>
                                           ELSE Append(run[pid], <<price, size>>)]
            /\ last' = [op |-> "on_trade", older |-> cur[pid] # None /\ _bucket(tsec) < cur[pid].b,
                        boundary |-> FALSE,
                        fin |-> [NoFin EXCEPT ![pid] = IF closes THEN run[pid] ELSE <<>>]]
    /\ ntrades' = ntrades + 1
    /\ now' = now
    /\ UNCHANGED nonAgg

\* the main loop: agg.flush_if_due(time.time())
FlushIfDue ==
    /\ LET r == flush_if_due(cur, hist, now)
       IN  /\ cur' = r[1]
           /\ hist' = r[2]
           /\ run' = [p \in Pairs |-> IF flush_due(cur[p], now) THEN <<>> ELSE run[p]]
           /\ last' = [op |-> "flush", older |-> FALSE,
                       boundary |-> \E p \in Pairs : cur[p] # None /\ now - cur[p].b = CANDLE_INTERVAL,
                       fin |-> [p \in Pairs |-> IF flush_due(cur[p], now) THEN run[p] ELSE <<>>]]
    /\ UNCHANGED <<now, ntrades>>
    /\ UNCHANGED nonAgg

\* time passes
Tick ==
    /\ now < MaxTime
    /\ now' = now + 1
    /\ last' = [op |-> "tick", older |-> FALSE, boundary |-> FALSE, fin |-> NoFin]
    /\ UNCHANGED <<aggVars, nonAgg>>

NextAgg ==
    \/ OnTrade
    \/ FlushIfDue
    \/ Tick

SpecAgg == InitAgg /\ [][NextAgg]_vars

----------------------------------------------------------------------------
(* Claims about CandleAgg, checked under SpecAgg *)

RECURSIVE MaxPriceOf(_)
MaxPriceOf(r) ==
    IF Len(r) = 1 THEN r[1][1]
    ELSE LET m == MaxPriceOf(Tail(r)) IN IF r[1][1] > m THEN r[1][1] ELSE m

RECURSIVE MinPriceOf(_)
MinPriceOf(r) ==
    IF Len(r) = 1 THEN r[1][1]
    ELSE LET m == MinPriceOf(Tail(r)) IN IF r[1][1] < m THEN r[1][1] ELSE m

RECURSIVE SumSizeOf(_)
SumSizeOf(r) ==
    IF r = <<>> THEN 0 ELSE r[1][2] + SumSizeOf(Tail(r))

\* <<open, high, low, close, volume>> a candle must show for the trades r
Ohlcv(r) ==
    <<r[1][1], MaxPriceOf(r), MinPriceOf(r), r[Len(r)][1], SumSizeOf(r)>>

Sound(o, h, l, c) ==
    /\ h >= o /\ h >= c
    /\ l <= o /\ l <= c

\* the array _finalize appends for the candle cd
ArrOf(cd) ==
    <<cd.b, cd.o, cd.h, cd.l, cd.c, cd.v>>

\* the last `Look` elements of the sequence s
KeepLast(s) ==
    IF Len(s) > Look THEN SubSeq(s, Len(s) - Look + 1, Len(s)) ELSE s

\* C1: when an instrument has an in-progress candle for bucket B, an on_trade
\* whose timestamp falls in a bucket older than B changes neither cur nor hist
\* of any instrument.
C1_OlderTradeIsNoOp ==
    [][(last'.op = "on_trade" /\ last'.older) => (cur' = cur /\ hist' = hist)]_vars

\* C2: the in-progress candle of an instrument has open = first price,
\* high = max price, low = min price, close = last price and volume = sum of the
\* sizes of the trades applied to it since it was opened; so has the array
\* appended to the history when it is finalized; and every candle, in progress
\* or finalized, has high >= max(open, close) and low <= min(open, close).
C2_CandleAggregates ==
    \A p \in Pairs :
        /\ cur[p] # None =>
              /\ run[p] # <<>>
              /\ <<cur[p].o, cur[p].h, cur[p].l, cur[p].c, cur[p].v>> = Ohlcv(run[p])
              /\ Sound(cur[p].o, cur[p].h, cur[p].l, cur[p].c)
        /\ last.fin[p] # <<>> =>
              /\ hist[p] # <<>>
              /\ SubSeq(hist[p][Len(hist[p])], 2, 6) = Ohlcv(last.fin[p])
        /\ \A i \in 1 .. Len(hist[p]) :
              Sound(hist[p][i][2], hist[p][i][3], hist[p][i][4], hist[p][i][5])

\* two trades at different prices were aggregated into a candle that has just been finalized
C2_Witness ==
    \E p \in Pairs :
        /\ Len(last.fin[p]) >= 2
        /\ last.fin[p][1][1] > last.fin[p][2][1]
        /\ hist[p] # <<>>

\* C10 as stated: flush_if_due(now) finalizes exactly the instruments whose
\* in-progress bucket start is MORE THAN the interval before now, and leaves
\* the others unchanged.
C10_FlushWhenMoreThanInterval ==
    [][last'.op = "flush" =>
        \A p \in Pairs :
            IF cur[p] # None /\ now - cur[p].b > CANDLE_INTERVAL
            THEN cur'[p] = None /\ hist'[p] = KeepLast(Append(hist[p], ArrOf(cur[p])))
            ELSE cur'[p] = cur[p] /\ hist'[p] = hist[p]]_vars

\* C10 amended: flush_if_due(now) finalizes exactly the instruments whose
\* in-progress bucket start is AT LEAST the interval before now: the candle is
\* appended once to that instrument's history and its in-progress slot becomes
\* empty; the instruments that are not due keep candle and history; and an
\* on_trade for an instrument with an empty slot appends nothing to its history.
C10_FlushWhenAtLeastInterval ==
    [][/\ last'.op = "flush" =>
            \A p \in Pairs :
                IF cur[p] # None /\ now - cur[p].b >= CANDLE_INTERVAL
                THEN cur'[p] = None /\ hist'[p] = KeepLast(Append(hist[p], ArrOf(cur[p])))
                ELSE cur'[p] = cur[p] /\ hist'[p] = hist[p]
       /\ last'.op = "on_trade" =>
            \A p \in Pairs : cur[p] = None => hist'[p] = hist[p]]_vars

\* a flush has just finalized a candle whose bucket started exactly one interval ago
C10_Witness ==
    /\ last.op = "flush"
    /\ last.boundary
    /\ \E p \in Pairs : last.fin[p] # <<>> /\ cur[p] = None /\ hist[p] # <<>>

----------------------------------------------------------------------------
(* is_duplicate, and SpecDedup: calls of is_duplicate from one thread *)

\* the cooldowns is_duplicate is called with (DEDUP_SEC is a configured value)
Cooldowns == {1, 2, 3}

\* _last_alert_ts.get(pair, 0.0)
last_alert_get(d, pair) ==
    IF pair \in DOMAIN d THEN d[pair] ELSE 0

\* _last_alert_ts[pair] = now
last_alert_set(d, pair, t) ==
    [q \in DOMAIN d \cup {pair} |-> IF q = pair THEN t ELSE d[q]]

\* is_duplicate at time t: <<returned value, the new _last_alert_ts>>
is_duplicate(d, pair, min_seconds, t) ==
    IF t - last_alert_get(d, pair) < min_seconds
    THEN <<TRUE, d>>
    ELSE <<FALSE, last_alert_set(d, pair, t)>>

InitDedup ==
    /\ CbIdle
    /\ AggIdle
    /\ AlertIdle
    /\ LibIdle
    /\ DedupIdle
    /\ BrkIdle
    /\ ThrIdle
    /\ ScanIdle
    /\ FeedIdle
    /\ now = 0
    /\ last = [op |-> "init", pair |-> "A", min_seconds |-> 0, ret |-> FALSE]

IsDuplicate ==
    /\ \E pair \in Pairs, min_seconds \in Cooldowns :
        LET r == is_duplicate(_last_alert_ts, pair, min_seconds, now)
        IN  /\ _last_alert_ts' = r[2]
            /\ last' = [op |-> "is_duplicate", pair |-> pair,
                        min_seconds |-> min_seconds, ret |-> r[1]]
    /\ UNCHANGED <<now, nonDedup>>

TickDedup ==
    /\ now < MaxTime
    /\ now' = now + 1
    /\ last' = [op |-> "tick", pair |-> "A", min_seconds |-> 0, ret |-> FALSE]
    /\ UNCHANGED <<dedupVars, nonDedup>>

NextDedup ==
    \/ IsDuplicate
    \/ TickDedup

SpecDedup == InitDedup /\ [][NextDedup]_vars

\* C4: is_duplicate(pair, cooldown) at time now: if an alert was last accepted
\* for the pair at time L and now - L < cooldown it returns True and changes no
\* pair's last-alert time; otherwise it returns False and sets only that pair's
\* last-alert time to now.
C4_DedupContract ==
    [][last'.op = "is_duplicate" =>
        LET p == last'.pair
            m == last'.min_seconds
        IN  IF p \in DOMAIN _last_alert_ts /\ now - _last_alert_ts[p] < m
            THEN last'.ret = TRUE /\ _last_alert_ts' = _last_alert_ts
            ELSE /\ last'.ret = FALSE
                 /\ DOMAIN _last_alert_ts' = DOMAIN _last_alert_ts \cup {p}
                 /\ _last_alert_ts'[p] = now
                 /\ \A q \in DOMAIN _last_alert_ts \ {p} :
                        _last_alert_ts'[q] = _last_alert_ts[q]]_vars

\* C20: the first is_duplicate call for a pair with no recorded alert returns
\* False and records the pair at the current time, whatever the cooldown and
\* the time.
C20_FirstAlertAccepted ==
    [][(last'.op = "is_duplicate" /\ last'.pair \notin DOMAIN _last_alert_ts) =>
          /\ last'.ret = FALSE
          /\ last'.pair \in DOMAIN _last_alert_ts'
          /\ _last_alert_ts'[last'.pair] = now]_vars

----------------------------------------------------------------------------
(* is_breakout_window, and SpecBrk: the function applied to bounded windows. *)
(* A float is a rational <<numerator, denominator>> with denominator > 0, or *)
(* an integer where the code only adds and multiplies.                      *)

\* SINGLE_BAND.BREAKOUT_THRESHOLD as configured for the model: 1/2
SB_PCT_OVER_HIGH == <<1, 2>>

\* SINGLE_BAND.VOLUME_SPIKE_RATIO as configured for the model: 3/2
SB_VOL_RATIO == <<3, 2>>

\* SCANNER.LIMITS.ABS_VOL_MIN_USD as configured for the model
ABS_VOL_MIN_USD == 2

\* longest window handed to is_breakout_window
MaxWin == 3

\* high, close and volume values of the candles of a window
BrkVals == {0, 1, 2}

\* the candle arrays [b, o, h, l, c, v] of a window (is_breakout_window reads h, c and v)
BrkCandles ==
    {<<0, c, h, c, c, v>> : h \in BrkVals, c \in BrkVals, v \in BrkVals}

RatGt(x, y) == x[1] * y[2] > y[1] * x[2]

RatGe(x, y) == x[1] * y[2] >= y[1] * x[2]

RatEq(x, y) == x[1] * y[2] = y[1] * x[2]

RECURSIVE SeqMax(_)
SeqMax(s) ==
    IF Len(s) = 1 THEN s[1]
    ELSE LET m == SeqMax(Tail(s)) IN IF s[1] > m THEN s[1] ELSE m

RECURSIVE SeqSum(_)
SeqSum(s) ==
    IF s = <<>> THEN 0 ELSE s[1] + SeqSum(Tail(s))

\* s[:-1]
AllButLast(s) ==
    SubSeq(s, 1, Len(s) - 1)

\* is_breakout_window: [hit, info]
is_breakout_window(cs, pct_over_high, vol_ratio_required, abs_usd_floor) ==
    IF Len(cs) < 3 THEN [hit |-> FALSE, info |-> <<>>]
    ELSE
        LET highs  == [i \in 1 .. Len(cs) |-> cs[i][3]]
            closes == [i \in 1 .. Len(cs) |-> cs[i][5]]
            vols   == [i \in 1 .. Len(cs) |-> cs[i][6]]
            max_high   == SeqMax(AllButLast(highs))
            last_close == closes[Len(cs)]
            \* prev_avg_vol = prev_sum / prev_n
            prev_sum   == SeqSum(AllButLast(vols))
            prev_n     == IF Len(cs) - 1 > 1 THEN Len(cs) - 1 ELSE 1
            last_vol   == vols[Len(cs)]
            usd        == last_vol * last_close
            pct_over   == IF max_high > 0 THEN <<last_close - max_high, max_high>> ELSE <<0, 1>>
            vol_ratio  == IF prev_sum > 0 THEN <<last_vol * prev_n, prev_sum>> ELSE <<0, 1>>
            \* last_close > max_high * (1.0 + pct_over_high)
            hit        == /\ last_close * pct_over_high[2] > max_high * (pct_over_high[2] + pct_over_high[1])
                          /\ RatGe(vol_ratio, vol_ratio_required)
                          /\ usd >= abs_usd_floor
        IN  [hit |-> hit,
             info |-> [last |-> last_close, max_high |-> max_high, pct_over |-> pct_over,
                       vol_ratio |-> vol_ratio, usd_per_min |-> usd]]

InitBrk ==
    /\ CbIdle
    /\ AggIdle
    /\ AlertIdle
    /\ LibIdle
    /\ DedupIdle
    /\ BrkIdle
    /\ ThrIdle
    /\ ScanIdle
    /\ FeedIdle
    /\ now = 0
    /\ last = [op |-> "init"]

\* one more candle in the window
BrkAppend ==
    /\ Len(cset) < MaxWin
    /\ \E cd \in BrkCandles : cset' = Append(cset, cd)
    /\ brk' = None
    /\ last' = [op |-> "append"]
    /\ UNCHANGED nonBrk

\* try_detect line 436: is_breakout_window(window, SB_PCT_OVER_HIGH, SB_VOL_RATIO, ABS_VOL_MIN_USD)
BrkEvaluate ==
    /\ brk = None
    /\ brk' = is_breakout_window(cset, SB_PCT_OVER_HIGH, SB_VOL_RATIO, ABS_VOL_MIN_USD)
    /\ last' = [op |-> "is_breakout_window"]
    /\ UNCHANGED <<cset, nonBrk>>

NextBrk ==
    \/ BrkAppend
    \/ BrkEvaluate

SpecBrk == InitBrk /\ [][NextBrk]_vars

\* C6: for a window of at least 3 candles is_breakout_window reports a hit iff
\* pctOver > threshold, volRatio >= spike ratio and usdPerMinute >= floor, where
\* maxHigh is the max high of all candles but the last, pctOver is
\* lastClose/maxHigh - 1 (0 when maxHigh is 0), volRatio is lastVolume over the
\* mean volume of all but the last (0 when that mean is 0), usdPerMinute is
\* lastVolume * lastClose; and the returned metrics are these values.
C6_HitIffThreeConditions ==
    (brk # None /\ Len(cset) >= 3) =>
        LET n        == Len(cset)
            maxHigh  == SeqMax([i \in 1 .. n - 1 |-> cset[i][3]])
            sumVol   == SeqSum([i \in 1 .. n - 1 |-> cset[i][6]])
            pctOver  == IF maxHigh = 0 THEN <<0, 1>> ELSE <<cset[n][5] - maxHigh, maxHigh>>
            volRatio == IF sumVol = 0 THEN <<0, 1>> ELSE <<cset[n][6] * (n - 1), sumVol>>
            usd      == cset[n][6] * cset[n][5]
        IN  /\ brk.hit <=> (/\ RatGt(pctOver, SB_PCT_OVER_HIGH)
                             /\ RatGe(volRatio, SB_VOL_RATIO)
                             /\ usd >= ABS_VOL_MIN_USD)
            /\ RatEq(brk.info.pct_over, pctOver)
            /\ RatEq(brk.info.vol_ratio, volRatio)
            /\ brk.info.usd_per_min = usd
            /\ brk.info.max_high = maxHigh

----------------------------------------------------------------------------
(* SpecConc: the threads of main() and the accesses to CandleAgg.cur / hist.  *)
(* The main thread seeds, starts a feed thread, and loops over hot reload,    *)
(* flush_if_due and (on_minute) candles(); the feed thread of a CandleAgg     *)
(* runs _on_trade: agg.on_trade and (on_trade) agg.candles. The old feed      *)
(* thread is not joined on reload and keeps the CandleAgg it was started with. *)

\* `with self.lock:` entered with the lock held by somebody: taken anyway
lock_acquirable_always(holder) ==
    TRUE

\* `with self.lock:` can be entered
lock_acquirable(holder) ==
    holder = "free"

InitConc ==
    /\ CbIdle
    /\ AggIdle
    /\ AlertIdle
    /\ LibIdle
    /\ DedupIdle
    /\ BrkIdle
    /\ ScanIdle
    /\ FeedIdle
    /\ now = 0
    /\ last = [op |-> "init"]
    /\ emit \in {"on_minute", "on_trade"}
    /\ gen = 0
    /\ mpc = "seed"
    /\ fpc = [g \in Gens |-> "none"]
    /\ lockh = [g \in Gens |-> "free"]

\* seed_from_rest: agg.hist[pid] = hist, without the lock (line 422); or backfill is off
MainSeedBegin ==
    /\ mpc = "seed"
    /\ \/ mpc' = "seed_write"
       \/ mpc' = "start"
    /\ UNCHANGED <<emit, gen, fpc, lockh, last, nonConc>>

MainSeedEnd ==
    /\ mpc = "seed_write"
    /\ mpc' = "seed"
    /\ UNCHANGED <<emit, gen, fpc, lockh, last, nonConc>>

\* start_ws(pairs, agg): the feed thread of the current CandleAgg starts
MainStartWs ==
    /\ mpc = "start"
    /\ fpc' = [fpc EXCEPT ![gen] = "idle"]
    /\ mpc' = "loop"
    /\ UNCHANGED <<emit, gen, lockh, last, nonConc>>

\* hot reload: ws_thread.stop(), agg = CandleAgg(...); the old thread is not joined
MainReload ==
    /\ mpc = "loop"
    /\ gen < MaxGen
    /\ gen' = gen + 1
    /\ mpc' = "seed"
    /\ UNCHANGED <<emit, fpc, lockh, last, nonConc>>

\* agg.flush_if_due: with self.lock
MainFlushEnter ==
    /\ mpc = "loop"
    /\ lock_acquirable(lockh[gen])
    /\ lockh' = [lockh EXCEPT ![gen] = "main"]
    /\ mpc' = "flush_in"
    /\ UNCHANGED <<emit, gen, fpc, last, nonConc>>

MainFlushLeave ==
    /\ mpc = "flush_in"
    /\ lockh' = [lockh EXCEPT ![gen] = "free"]
    /\ mpc' = IF emit = "on_minute" THEN "cycle" ELSE "loop"
    /\ UNCHANGED <<emit, gen, fpc, last, nonConc>>

\* for pid in pairs: cs = agg.candles(pid): with self.lock
MainCandlesEnter ==
    /\ mpc = "cycle"
    /\ lock_acquirable(lockh[gen])
    /\ lockh' = [lockh EXCEPT ![gen] = "main"]
    /\ mpc' = "candles_in"
    /\ UNCHANGED <<emit, gen, fpc, last, nonConc>>

MainCandlesLeave ==
    /\ mpc = "candles_in"
    /\ lockh' = [lockh EXCEPT ![gen] = "free"]
    /\ \/ mpc' = "cycle"
       \/ mpc' = "loop"
    /\ UNCHANGED <<emit, gen, fpc, last, nonConc>>

\* a message arrives: _on_trade -> agg.on_trade: with self.lock
FeedTradeEnter(g) ==
    /\ fpc[g] = "idle"
    /\ lock_acquirable(lockh[g])
    /\ lockh' = [lockh EXCEPT ![g] = "feed"]
    /\ fpc' = [fpc EXCEPT ![g] = "trade_finalize"]
    /\ UNCHANGED <<emit, gen, mpc, last, nonConc>>

\* lines 305-307: the previous candle is finalized, the new one is not written yet
FeedTradeHalf(g) ==
    /\ fpc[g] = "trade_finalize"
    /\ fpc' = [fpc EXCEPT ![g] = "trade_write"]
    /\ UNCHANGED <<emit, gen, mpc, lockh, last, nonConc>>

FeedTradeLeave(g) ==
    /\ fpc[g] = "trade_write"
    /\ lockh' = [lockh EXCEPT ![g] = "free"]
    /\ fpc' = [fpc EXCEPT ![g] = IF emit = "on_trade" THEN "snap" ELSE "idle"]
    /\ UNCHANGED <<emit, gen, mpc, last, nonConc>>

\* WS_EMIT == "on_trade": cs = agg.candles(pid): with self.lock
FeedCandlesEnter(g) ==
    /\ fpc[g] = "snap"
    /\ lock_acquirable(lockh[g])
    /\ lockh' = [lockh EXCEPT ![g] = "feed"]
    /\ fpc' = [fpc EXCEPT ![g] = "candles_in"]
    /\ UNCHANGED <<emit, gen, mpc, last, nonConc>>

FeedCandlesLeave(g) ==
    /\ fpc[g] = "candles_in"
    /\ lockh' = [lockh EXCEPT ![g] = "free"]
    /\ fpc' = [fpc EXCEPT ![g] = "idle"]
    /\ UNCHANGED <<emit, gen, mpc, last, nonConc>>

\* a stopped feed thread ends (CBWebSocket.run leaves its loop)
FeedEnd(g) ==
    /\ fpc[g] = "idle"
    /\ g < gen
    /\ fpc' = [fpc EXCEPT ![g] = "dead"]
    /\ UNCHANGED <<emit, gen, mpc, lockh, last, nonConc>>

NextConc ==
    \/ MainSeedBegin
    \/ MainSeedEnd
    \/ MainStartWs
    \/ MainReload
    \/ MainFlushEnter
    \/ MainFlushLeave
    \/ MainCandlesEnter
    \/ MainCandlesLeave
    \/ \E g \in Gens : FeedTradeEnter(g)
    \/ \E g \in Gens : FeedTradeHalf(g)
    \/ \E g \in Gens : FeedTradeLeave(g)
    \/ \E g \in Gens : FeedCandlesEnter(g)
    \/ \E g \in Gens : FeedCandlesLeave(g)
    \/ \E g \in Gens : FeedEnd(g)

SpecConc == InitConc /\ [][NextConc]_vars

\* the main thread is reading or writing cur / hist of CandleAgg g
MainTouches(g) ==
    gen = g /\ mpc \in {"seed_write", "flush_in", "candles_in"}

\* the feed thread of CandleAgg g is reading or writing its cur / hist
FeedTouches(g) ==
    fpc[g] \in {"trade_finalize", "trade_write", "candles_in"}

\* C3: no two execution contexts are at the same time reading or modifying the
\* candle state of the same CandleAgg (on_trade, flush_if_due, candles(),
\* seed_from_rest), and no snapshot is taken while a trade is half applied.
C3_CandleStateExclusive ==
    \A g \in Gens :
        /\ ~(MainTouches(g) /\ FeedTouches(g))
        /\ ~(gen = g /\ mpc = "candles_in" /\ fpc[g] \in {"trade_finalize", "trade_write"})

\* the main thread waits at flush_if_due while the feed thread has a trade half applied
C3_Witness ==
    /\ mpc = "loop"
    /\ fpc[gen] = "trade_write"
    /\ lockh[gen] = "feed"
    /\ gen > 0

----------------------------------------------------------------------------
(* try_detect and the emit cycle of main() *)

\* SINGLE_BAND.CANDLES as configured for the model
SB_WIN == 3

\* DUPLICATE_CONTROL.MIN_SECONDS_BETWEEN_ALERTS_PER_PAIR as configured for the model
DEDUP_SEC == 2

\* POST_FILTERS.ENABLED as configured for the model
FILTERS_ENABLE == FALSE

\* s[-n:]
LastN(s, n) ==
    IF n > 0 /\ Len(s) > n THEN SubSeq(s, Len(s) - n + 1, Len(s)) ELSE s

\* POST_FILTERS as configured for the model: every filter on, FILTER_LOGIC ALL,
\* RSI preset DEFAULT, MACD rule hist_up, and short periods
FILTER_LOGIC == "ALL"

RSI_ENABLE == TRUE

RSI_PRESET == "DEFAULT"

RSI_PERIOD == 2

RSI_MIN == 50

RSI_MAX == 70

VPM_ENABLE == TRUE

VOLMIN_LOOK == 2

VOLMIN_FLOOR == 1

MACD_ENABLE == TRUE

MACD_RULE == "hist_up"

MACD_FAST == 1

MACD_SLOW == 2

MACD_SIG == 2

\* floats are fractions <<numerator, denominator>> with a positive denominator
RECURSIVE Gcd(_, _)
Gcd(a, b) ==
    IF b = 0 THEN a ELSE Gcd(b, a % b)

RatNorm(x) ==
    LET n == IF x[2] < 0 THEN 0 - x[1] ELSE x[1]
        d == IF x[2] < 0 THEN 0 - x[2] ELSE x[2]
        g == Gcd(IF n < 0 THEN 0 - n ELSE n, d)
    IN  <<n \div g, d \div g>>

RatAdd(x, y) == RatNorm(<<x[1] * y[2] + y[1] * x[2], x[2] * y[2]>>)

RatSub(x, y) == RatNorm(<<x[1] * y[2] - y[1] * x[2], x[2] * y[2]>>)

RatMul(x, y) == RatNorm(<<x[1] * y[1], x[2] * y[2]>>)

RatDiv(x, y) == RatNorm(<<x[1] * y[2], x[2] * y[1]>>)

\* an indicator that could not be computed
NoValue == [none |-> TRUE, val |-> <<0, 1>>]

Value(x) == [none |-> FALSE, val |-> x]

\* compute_rsi lines 199-201: the smoothing of avg over xs[i ..]
RECURSIVE Smoothed(_, _, _, _)
Smoothed(avg, xs, i, period) ==
    IF i > Len(xs) THEN avg
    ELSE Smoothed(RatDiv(RatAdd(RatMul(avg, <<period - 1, 1>>), <<xs[i], 1>>), <<period, 1>>),
                  xs, i + 1, period)

\* compute_rsi testing avg_gain, not avg_loss, for zero: a division by a zero
\* avg_loss raises and there is no value
compute_rsi_tests_gain(closes, period) ==
    IF Len(closes) < period + 1 THEN NoValue
    ELSE
        LET deltas == [i \in 1 .. Len(closes) - 1 |-> closes[i + 1] - closes[i]]
            gains  == [i \in 1 .. Len(deltas) |-> IF deltas[i] > 0 THEN deltas[i] ELSE 0]
            losses == [i \in 1 .. Len(deltas) |-> IF deltas[i] < 0 THEN 0 - deltas[i] ELSE 0]
            avg_gain == Smoothed(<<SeqSum(SubSeq(gains, 1, period)), period>>,
                                 gains, period + 1, period)
            avg_loss == Smoothed(<<SeqSum(SubSeq(losses, 1, period)), period>>,
                                 losses, period + 1, period)
        IN  IF avg_gain[1] = 0 THEN Value(<<100, 1>>)
            ELSE IF avg_loss[1] = 0 THEN NoValue
            ELSE LET rs == RatDiv(avg_gain, avg_loss)
                 IN  Value(RatSub(<<100, 1>>, RatDiv(<<100, 1>>, RatAdd(<<1, 1>>, rs))))

compute_rsi(closes, period) ==
    IF Len(closes) < period + 1 THEN NoValue
    ELSE
        LET deltas == [i \in 1 .. Len(closes) - 1 |-> closes[i + 1] - closes[i]]
            gains  == [i \in 1 .. Len(deltas) |-> IF deltas[i] > 0 THEN deltas[i] ELSE 0]
            losses == [i \in 1 .. Len(deltas) |-> IF deltas[i] < 0 THEN 0 - deltas[i] ELSE 0]
            avg_gain == Smoothed(<<SeqSum(SubSeq(gains, 1, period)), period>>,
                                 gains, period + 1, period)
            avg_loss == Smoothed(<<SeqSum(SubSeq(losses, 1, period)), period>>,
                                 losses, period + 1, period)
        IN  IF avg_loss[1] = 0 THEN Value(<<100, 1>>)
            ELSE LET rs == RatDiv(avg_gain, avg_loss)
                 IN  Value(RatSub(<<100, 1>>, RatDiv(<<100, 1>>, RatAdd(<<1, 1>>, rs))))

\* ema lines 211-212: the loop over vals[i ..], e the list built so far
RECURSIVE ema_loop(_, _, _, _)
ema_loop(e, vals, i, k) ==
    IF i > Len(vals) THEN e
    ELSE ema_loop(Append(e, RatAdd(RatMul(RatSub(vals[i], e[Len(e)]), k), e[Len(e)])),
                  vals, i + 1, k)

\* ema over a non-empty list of fractions
ema(vals, period) ==
    ema_loop(<<vals[1]>>, vals, 2, <<2, period + 1>>)

\* compute_macd lines 221-222: the record returned for the last macd m and the last signal sg
macd_info(m, sg) ==
    [none |-> FALSE, macd |-> m, signal |-> sg, hist |-> RatSub(m, sg)]

\* compute_macd lines 220-222 for the macd line
macd_of_line(macd_line, signal_line) ==
    macd_info(macd_line[Len(macd_line)], signal_line[Len(signal_line)])

\* compute_macd lines 219-220: macd_line from the two averages (of one length), then its signal
macd_of_emas(e_fast, e_slow, signal) ==
    LET macd_line == [i \in 1 .. Len(e_slow) |-> RatSub(e_fast[i], e_slow[i])]
    IN  macd_of_line(macd_line, ema(macd_line, signal))

\* compute_macd asking for `slow` closes only
compute_macd_slow_only(closes, fast, slow, signal) ==
    IF Len(closes) < slow THEN [none |-> TRUE]
    ELSE macd_of_emas(ema([i \in 1 .. Len(closes) |-> <<closes[i], 1>>], fast),
                      ema([i \in 1 .. Len(closes) |-> <<closes[i], 1>>], slow), signal)

\* compute_macd: [none |-> TRUE], or the record of macd, signal and hist
compute_macd(closes, fast, slow, signal) ==
    IF Len(closes) < slow + signal THEN [none |-> TRUE]
    ELSE macd_of_emas(ema([i \in 1 .. Len(closes) |-> <<closes[i], 1>>], fast),
                      ema([i \in 1 .. Len(closes) |-> <<closes[i], 1>>], slow), signal)

\* rsi_bounds_from_preset: <<low, high>>
rsi_bounds_from_preset(default_low, default_high) ==
    IF RSI_PRESET = "SCALP" THEN <<45, 72>>
    ELSE IF RSI_PRESET \in {"BALANCED", "DEFAULT"} THEN <<50, 70>>
    ELSE IF RSI_PRESET = "STRICT" THEN <<52, 68>>
    ELSE <<default_low, default_high>>

\* the POST_FILTERS switches of lines 47-64 as the model sets them
PF ==
    [enabled |-> FILTERS_ENABLE, logic |-> FILTER_LOGIC, rsi |-> RSI_ENABLE,
     vpm |-> VPM_ENABLE, macd |-> MACD_ENABLE, rule |-> MACD_RULE]

\* the RSI check failing when there is no value
pass_rsi_in_none_fails(pf, rsi_val, bounds) ==
    \/ ~pf.rsi
    \/ /\ ~rsi_val.none
       /\ RatGe(rsi_val.val, <<bounds[1], 1>>)
       /\ RatGe(<<bounds[2], 1>>, rsi_val.val)

\* apply_filters line 242 under the switches pf: the RSI check
pass_rsi_in(pf, rsi_val, bounds) ==
    \/ ~pf.rsi
    \/ rsi_val.none
    \/ /\ RatGe(rsi_val.val, <<bounds[1], 1>>)
       /\ RatGe(<<bounds[2], 1>>, rsi_val.val)

\* apply_filters line 242: the RSI check
pass_rsi(rsi_val, bounds) ==
    pass_rsi_in(PF, rsi_val, bounds)

\* apply_filters lines 247-249: the average of usd_vals without the current candle
vpm_avg(usd_vals) ==
    LET prev == IF Len(usd_vals) > 1 THEN AllButLast(usd_vals) ELSE usd_vals
    IN  RatNorm(<<SeqSum(prev), IF Len(prev) > 1 THEN Len(prev) ELSE 1>>)

\* apply_filters lines 246-254 with VPM_ENABLE = vpm and VOLMIN_LOOK = look:
\* the VPM check is made, and avg_usd
vpm_info_look(vpm, candles, look) ==
    IF vpm /\ Len(candles) >= (IF look > 2 THEN look ELSE 2)
    THEN Value(vpm_avg([i \in 1 .. Len(LastN(candles, look)) |->
                          LastN(candles, look)[i][6] * LastN(candles, look)[i][5]]))
    ELSE NoValue

\* apply_filters lines 246-254 under the switches pf: the VPM check is made, and avg_usd
vpm_info_in(pf, candles) ==
    vpm_info_look(pf.vpm, candles, VOLMIN_LOOK)

\* apply_filters lines 246-254: the VPM check is made, and avg_usd
vpm_info(candles) ==
    vpm_info_in(PF, candles)

pass_vpm(vpm) ==
    vpm.none \/ RatGe(vpm.val, <<VOLMIN_FLOOR, 1>>)

\* apply_filters lines 258-266 under the switches pf: the MACD check
pass_macd_in(pf, macdinfo) ==
    IF pf.macd /\ ~macdinfo.none
    THEN IF pf.rule = "hist_up" THEN macdinfo.hist[1] > 0
         ELSE IF pf.rule = "line_cross" THEN RatGt(macdinfo.macd, macdinfo.signal)
         ELSE macdinfo.hist[1] > 0 /\ RatGt(macdinfo.macd, macdinfo.signal)
    ELSE TRUE

\* apply_filters lines 258-266: the MACD check
pass_macd(macdinfo) ==
    pass_macd_in(PF, macdinfo)

\* apply_filters lines 268-269 under the switches pf: ok and the details from the three indicators
filters_result_in(pf, rsi_val, vpm, macdinfo) ==
    [ok |-> IF pf.logic = "ALL"
            THEN /\ pass_rsi_in(pf, rsi_val, rsi_bounds_from_preset(RSI_MIN, RSI_MAX))
                 /\ pass_vpm(vpm)
                 /\ pass_macd_in(pf, macdinfo)
            ELSE \/ pass_rsi_in(pf, rsi_val, rsi_bounds_from_preset(RSI_MIN, RSI_MAX))
                 \/ pass_vpm(vpm)
                 \/ pass_macd_in(pf, macdinfo),
     rsi |-> rsi_val,
     vpm_avg_usd |-> vpm,
     macd_hist |-> IF pf.macd /\ ~macdinfo.none THEN Value(macdinfo.hist) ELSE NoValue]

\* apply_filters lines 268-269: ok and the details from the three indicators
filters_result(rsi_val, vpm, macdinfo) ==
    filters_result_in(PF, rsi_val, vpm, macdinfo)

\* the closes of apply_filters line 237
ClosesOf(candles) ==
    [i \in 1 .. Len(candles) |-> candles[i][5]]

\* apply_filters under the switches pf: ok and the details
apply_filters_in(pf, candles) ==
    IF ~pf.enabled
    THEN [ok |-> TRUE, rsi |-> NoValue, vpm_avg_usd |-> NoValue, macd_hist |-> NoValue]
    ELSE filters_result_in(pf,
             IF pf.rsi THEN compute_rsi(ClosesOf(candles), RSI_PERIOD) ELSE NoValue,
             vpm_info_in(pf, candles),
             IF pf.macd
             THEN compute_macd(ClosesOf(candles), MACD_FAST, MACD_SLOW, MACD_SIG)
             ELSE [none |-> TRUE])

\* apply_filters: ok and the details
apply_filters(candles) ==
    apply_filters_in(PF, candles)

\* try_detect lines 434-440: the window is a breakout and passes the filters
try_detect_passes(candles) ==
    LET win    == IF SB_WIN > 3 THEN SB_WIN ELSE 3
        window == LastN(candles, win)
    IN  /\ is_breakout_window(window, SB_PCT_OVER_HIGH, SB_VOL_RATIO, ABS_VOL_MIN_USD).hit
        /\ apply_filters(candles).ok

\* try_detect without line 441: every passing window is accepted
try_detect_no_dedup(d, pair, candles, t) ==
    IF ~try_detect_passes(candles) THEN [det |-> FALSE, d |-> d]
    ELSE [det |-> TRUE, d |-> last_alert_set(d, pair, t)]

\* try_detect at time t: whether a DetectionEvent is accepted, and the new _last_alert_ts
try_detect(d, pair, candles, t) ==
    IF ~try_detect_passes(candles) THEN [det |-> FALSE, d |-> d]
    ELSE LET r == is_duplicate(d, pair, DEDUP_SEC, t)
         IN  [det |-> ~r[1], d |-> r[2]]

\* the DetectionEvent of line 444, with the candles it was detected on and
\* whether its pair was in the main thread's `pairs` when it was accepted
DetOf(pair, t, cs, tracked) ==
    [pair |-> pair, t |-> t, cs |-> cs, tracked |-> tracked]

\* lines 545-548: for pid in pairs: cs = agg.candles(pid); if len(cs) >= SB_WIN: try_detect(pid, cs)
RECURSIVE emit_cycle(_, _, _, _, _)
emit_cycle(todo, d, ev, h, t) ==
    IF todo = {} THEN <<d, ev>>
    ELSE LET pid == CHOOSE q \in todo : TRUE
             r   == IF Len(h[pid]) >= SB_WIN THEN try_detect(d, pid, h[pid], t)
                    ELSE [det |-> FALSE, d |-> d]
         IN  emit_cycle(todo \ {pid}, r.d,
                        IF r.det THEN Append(ev, DetOf(pid, t, h[pid], TRUE)) ELSE ev,
                        h, t)

----------------------------------------------------------------------------
(* SpecMinute: WS_EMIT = on_minute, no backfill, one tracked pair: live trades *)
(* build the candles, the main loop flushes and detects.                      *)

\* the clock of SpecMinute runs 0 .. ScenTime
ScenTime == 8

\* trades delivered in one behaviour of SpecMinute
ScenTrades == 4

InitMinute ==
    /\ CbIdle
    /\ AggIdle
    /\ AlertIdle
    /\ LibIdle
    /\ DedupIdle
    /\ BrkIdle
    /\ ThrIdle
    /\ FeedIdle
    /\ pairs = {"A"}
    /\ events = <<>>
    /\ now = 0
    /\ last = [op |-> "init", n |-> 0]

\* the feed thread: _on_trade(pid, price, size, tsec) with the trade's time the current time
MinuteTrade ==
    /\ ntrades < ScenTrades
    /\ \E pid \in pairs, price \in Prices, size \in Sizes :
        LET r == on_trade(cur, hist, pid, price, size, now)
        IN  /\ cur' = r[1]
            /\ hist' = r[2]
    /\ ntrades' = ntrades + 1
    /\ last' = [op |-> "on_trade", n |-> 0]
    /\ UNCHANGED <<now, _last_alert_ts, pairs, events, nonMinute>>

\* one iteration of the main loop, lines 543-548
MinuteCycle ==
    /\ LET f == flush_if_due(cur, hist, now)
           r == emit_cycle(pairs, _last_alert_ts, events, f[2], now)
       IN  /\ cur' = f[1]
           /\ hist' = f[2]
           /\ _last_alert_ts' = r[1]
           /\ events' = r[2]
           /\ last' = [op |-> "cycle", n |-> Len(r[2]) - Len(events)]
    /\ UNCHANGED <<now, ntrades, pairs, nonMinute>>

MinuteTick ==
    /\ now < ScenTime
    /\ now' = now + 1
    /\ last' = [op |-> "tick", n |-> 0]
    /\ UNCHANGED <<cur, hist, ntrades, _last_alert_ts, pairs, events, nonMinute>>

NextMinute ==
    \/ MinuteTrade
    \/ MinuteCycle
    \/ MinuteTick

SpecMinute == InitMinute /\ [][NextMinute]_vars

\* the finalized candles cs hold at least SB_WIN candles and the last SB_WIN are a breakout
IsBreakout(cs) ==
    /\ Len(cs) >= SB_WIN
    /\ is_breakout_window(LastN(cs, SB_WIN), SB_PCT_OVER_HIGH, SB_VOL_RATIO, ABS_VOL_MIN_USD).hit

\* the indices of the events of pair p among the first n events of ev
EventsOf(ev, p, n) ==
    {i \in 1 .. n : ev[i].pair = p}

\* any two accepted events of one pair are at least DEDUP_SEC apart
EventsApart(ev) ==
    \A i, j \in 1 .. Len(ev) :
        (i < j /\ ev[i].pair = ev[j].pair) => ev[j].t - ev[i].t >= DEDUP_SEC

\* C7 as stated: once the candles built by live trades are a breakout, exactly
\* one DetectionEvent is emitted for the pair: no detection cycle over the same
\* candles emits a further one.
C7_OneEventForTheSameCandles ==
    \A i, j \in 1 .. Len(events) :
        (i < j /\ events[i].pair = events[j].pair) => events[i].cs # events[j].cs

\* C7 amended: a detection cycle emits a DetectionEvent for a pair exactly when
\* its finalized candles are a breakout and no event was accepted for the pair
\* less than DEDUP_SEC ago (with no event yet: when the clock reads at least
\* DEDUP_SEC), and then exactly one; so repeated cycles over the same candles
\* and a second burst of trades emit no further event within DEDUP_SEC of the
\* last event, and any two events of the pair are at least DEDUP_SEC apart.
C7_OneEventPerCooldown ==
    [][last'.op = "cycle" =>
        /\ \A p \in pairs :
             LET old   == EventsOf(events, p, Len(events))
                 new   == EventsOf(events', p, Len(events')) \ old
                 fresh == IF old = {} THEN now >= DEDUP_SEC
                          ELSE \A i \in old : now - events[i].t >= DEDUP_SEC
             IN  /\ new # {} <=> (IsBreakout(hist'[p]) /\ fresh)
                 /\ Cardinality(new) <= 1
                 /\ \A i \in new : events'[i].t = now /\ events'[i].cs = hist'[p]
        /\ SubSeq(events', 1, Len(events)) = events
        /\ EventsApart(events')]_vars

\* one event was emitted; within the cooldown a second burst of trades has
\* arrived and another detection cycle over the same candles has emitted nothing
C7_Witness ==
    /\ Len(events) = 1
    /\ last.op = "cycle" /\ last.n = 0
    /\ now > events[1].t /\ now - events[1].t < DEDUP_SEC
    /\ hist["A"] = events[1].cs
    /\ cur["A"] # None /\ cur["A"].b >= events[1].t

----------------------------------------------------------------------------
(* SpecReload: main() with the feed enabled and REST backfill on: the main   *)
(* loop (hot reload, emit cycle) and the feed threads it starts. A reload    *)
(* stops the old thread without joining it, so feed threads of several       *)
(* generations run side by side. Steps of one thread are as fine as the      *)
(* other threads can observe: a CandleAgg method is one step (self.lock),    *)
(* is_duplicate is two (line 428 reads the dict, line 430 writes it).        *)

BACKFILL_ENABLED == TRUE

BACKFILL_BARS == 3

\* the clock of SpecReload runs 0 .. ReloadTime
ReloadTime == 2

\* the trades the feed delivers in SpecReload: <<price, size>>
ReloadTrades == {<<1, 1>>, <<MaxPrice, 2>>}

\* the universes universe.txt can hold
Universes == SUBSET Pairs \ {{}}

\* bodies the REST endpoint answers with, rows in Coinbase order
\* <<time, low, high, open, close, volume>>, newest first; ok = FALSE is a
\* body that is not a list, or a failed request
RestBodies ==
    { [ok |-> FALSE, rows |-> <<>>],
      [ok |-> TRUE, rows |-> << <<0 - 2, 2, 2, 2, 2, 2>>, <<0 - 4, 1, 1, 1, 1, 1>>,
                                <<0 - 6, 1, 1, 1, 1, 1>> >>] }

\* list.sort(key = c[0]) step: row x put into the sorted rows s, after the rows of equal time
RECURSIVE SortedInsert(_, _)
SortedInsert(s, x) ==
    IF s = <<>> THEN <<x>>
    ELSE IF s[Len(s)][1] <= x[1] THEN Append(s, x)
    ELSE Append(SortedInsert(SubSeq(s, 1, Len(s) - 1), x), s[Len(s)])

\* data.sort(key = lambda c: c[0])
RECURSIVE SortByTime(_)
SortByTime(rows) ==
    IF rows = <<>> THEN <<>>
    ELSE SortedInsert(SortByTime(SubSeq(rows, 1, Len(rows) - 1)), rows[Len(rows)])

\* get_candles_rest on the body the endpoint answered with
get_candles_rest(body) ==
    IF ~body.ok THEN <<>> ELSE SortByTime(body.rows)

\* seed_from_rest giving up on every instrument when one fetch comes back empty
seed_from_rest_all_or_nothing(h, ps, bars, rest) ==
    IF bars <= 0 \/ \E pid \in ps : get_candles_rest(rest[pid]) = <<>> THEN h
    ELSE [pid \in Pairs |->
            LET data == get_candles_rest(rest[pid])
            IN  IF pid \notin ps THEN h[pid]
                ELSE LastN([i \in 1 .. Len(data) |->
                              <<data[i][1], data[i][4], data[i][3], data[i][2], data[i][5], data[i][6]>>],
                           IF bars < Look THEN bars ELSE Look)]

\* seed_from_rest(agg, ps, bars) with rest[pid] the body answered for pid: the new agg.hist
seed_from_rest(h, ps, bars, rest) ==
    IF bars <= 0 THEN h
    ELSE [pid \in Pairs |->
            LET data   == get_candles_rest(rest[pid])
                mapped == [i \in 1 .. Len(data) |->
                             <<data[i][1], data[i][4], data[i][3], data[i][2], data[i][5], data[i][6]>>]
            IN  IF pid \notin ps \/ data = <<>> THEN h[pid]
                ELSE LastN(mapped, IF bars < Look THEN bars ELSE Look)]

\* CandleAgg(...) of lines 515 / 534, seeded when backfill is on (lines 518-520 / 535-537)
NewAgg(ps, rest) ==
    LET c0 == [p \in Pairs |-> None]
        h0 == [p \in Pairs |-> <<>>]
    IN  [cur |-> c0,
         hist |-> IF BACKFILL_ENABLED /\ BACKFILL_BARS > 0
                  THEN seed_from_rest(h0, ps, BACKFILL_BARS, rest) ELSE h0]

\* main() up to line 522: pairs loaded, the CandleAgg built and seeded, the feed thread started
InitReload ==
    /\ CbIdle
    /\ AggIdle
    /\ AlertIdle
    /\ LibIdle
    /\ DedupIdle
    /\ BrkIdle
    /\ mpc = "off"
    /\ lockh = [g \in Gens |-> "free"]
    /\ emit \in {"on_minute", "on_trade"}
    /\ gen = 0
    /\ now = 0
    /\ events = <<>>
    /\ pairs \in Universes
    /\ \E rest \in [Pairs -> RestBodies] :
          aggs = [g \in Gens |-> IF g = 0 THEN NewAgg(pairs, rest) ELSE NewAgg({}, rest)]
    /\ sub = [g \in Gens |-> IF g = 0 THEN pairs ELSE {}]
    /\ fpc = [g \in Gens |-> IF g = 0 THEN "run" ELSE "none"]
    /\ stop_flag = [g \in Gens |-> FALSE]
    /\ ws = [g \in Gens |-> "none"]
    /\ floc = [g \in Gens |-> NoLocals]
    /\ last = [op |-> "init"]

\* lines 527-540 when the re-read set differs: the old thread is told to stop
\* (CBWebSocket.stop: the flag is set, the socket is closed if there is one)
\* and is not joined; a new CandleAgg is built and seeded, a new feed thread
\* is started on it, and pairs is switched
HotReload ==
    /\ gen < MaxGen
    /\ \E new_pairs \in Universes \ {pairs}, rest \in [Pairs -> RestBodies] :
        /\ stop_flag' = [stop_flag EXCEPT ![gen] = TRUE]
        /\ ws' = [ws EXCEPT ![gen] = IF @ = "open" THEN "closed" ELSE @]
        /\ aggs' = [aggs EXCEPT ![gen + 1] = NewAgg(new_pairs, rest)]
        /\ sub' = [sub EXCEPT ![gen + 1] = new_pairs]
        /\ fpc' = [fpc EXCEPT ![gen + 1] = "run"]
        /\ pairs' = new_pairs
    /\ gen' = gen + 1
    /\ last' = [op |-> "reload", same |-> FALSE]
    /\ UNCHANGED <<now, ntrades, _last_alert_ts, events, emit, floc, nonReload>>

\* lines 527-540 when universe.txt was touched but holds the same set: line 530 is false
HotReloadSame ==
    /\ \E new_pairs \in Universes :
        /\ new_pairs = pairs
        /\ pairs' = new_pairs
    /\ last' = [op |-> "reload", same |-> TRUE]
    /\ UNCHANGED <<now, ntrades, _last_alert_ts, events, emit, gen, fpc, feedVars, nonReload>>

\* lines 543-548: flush the current CandleAgg, and in on_minute mode detect on every pair
EmitCycle ==
    /\ LET f == flush_if_due(aggs[gen].cur, aggs[gen].hist, now)
           r == IF emit = "on_minute"
                THEN emit_cycle(pairs, _last_alert_ts, events, f[2], now)
                ELSE <<_last_alert_ts, events>>
       IN  /\ aggs' = [aggs EXCEPT ![gen] = [cur |-> f[1], hist |-> f[2]]]
           /\ _last_alert_ts' = r[1]
           /\ events' = r[2]
           /\ last' = [op |-> "step"]
    /\ UNCHANGED <<now, ntrades, emit, gen, fpc, pairs, sub, stop_flag, ws, floc, nonReload>>

\* CBWebSocket.run line 343: the loop test
FeedRunTest(g) ==
    /\ fpc[g] = "run"
    /\ fpc' = [fpc EXCEPT ![g] = IF stop_flag[g] THEN "dead" ELSE "connect"]
    /\ last' = [op |-> "step"]
    /\ UNCHANGED <<now, ntrades, _last_alert_ts, events, emit, gen, pairs, feedVars, nonReload>>

\* _loop lines 376-378: self.ws is assigned a new socket and run_forever connects it
FeedConnect(g) ==
    /\ fpc[g] = "connect"
    /\ ws' = [ws EXCEPT ![g] = "open"]
    /\ fpc' = [fpc EXCEPT ![g] = "live"]
    /\ last' = [op |-> "step"]
    /\ UNCHANGED <<now, ntrades, _last_alert_ts, events, emit, gen, pairs,
                   aggs, sub, stop_flag, floc, nonReload>>

\* on_message with a trade of a subscribed pair: _on_trade line 507, agg.on_trade
\* on the CandleAgg the closure was built with
FeedTrade(g) ==
    /\ fpc[g] = "live"
    /\ ws[g] = "open"
    /\ ntrades < MaxTrades
    /\ \E pid \in sub[g], tr \in ReloadTrades :
        LET r == on_trade(aggs[g].cur, aggs[g].hist, pid, tr[1], tr[2], now)
        IN  /\ aggs' = [aggs EXCEPT ![g] = [cur |-> r[1], hist |-> r[2]]]
            /\ floc' = [floc EXCEPT ![g] = [NoLocals EXCEPT !.pid = pid]]
    /\ ntrades' = ntrades + 1
    /\ fpc' = [fpc EXCEPT ![g] = IF emit = "on_trade" THEN "cb_candles" ELSE "live"]
    /\ last' = [op |-> "trade", g |-> g]
    /\ UNCHANGED <<now, _last_alert_ts, events, emit, gen, pairs, sub, stop_flag, ws, nonReload>>

\* _on_trade lines 509-511 and try_detect lines 434-440: the snapshot, the
\* length test, the breakout rule and the filters
FeedCandles(g) ==
    /\ fpc[g] = "cb_candles"
    /\ LET cs == aggs[g].hist[floc[g].pid]
       IN  IF Len(cs) >= SB_WIN /\ try_detect_passes(cs)
           THEN /\ floc' = [floc EXCEPT ![g].cs = cs]
                /\ fpc' = [fpc EXCEPT ![g] = "cb_dedup"]
           ELSE /\ floc' = [floc EXCEPT ![g] = NoLocals]
                /\ fpc' = [fpc EXCEPT ![g] = "live"]
    /\ last' = [op |-> "step"]
    /\ UNCHANGED <<now, ntrades, _last_alert_ts, events, emit, gen, pairs,
                   aggs, sub, stop_flag, ws, nonReload>>

\* is_duplicate lines 427-428: now = time.time(); last = _last_alert_ts.get(pair, 0.0)
FeedDedupRead(g) ==
    /\ fpc[g] = "cb_dedup"
    /\ floc' = [floc EXCEPT ![g].t = now,
                            ![g].last = last_alert_get(_last_alert_ts, floc[g].pid)]
    /\ fpc' = [fpc EXCEPT ![g] = "cb_accept"]
    /\ last' = [op |-> "step"]
    /\ UNCHANGED <<now, ntrades, _last_alert_ts, events, emit, gen, pairs,
                   aggs, sub, stop_flag, ws, nonReload>>

\* is_duplicate lines 429-430 and try_detect from line 443 on: a duplicate
\* returns, anything else stores its time and is accepted
FeedDedupWrite(g) ==
    /\ fpc[g] = "cb_accept"
    /\ IF floc[g].t - floc[g].last < DEDUP_SEC
       THEN UNCHANGED <<_last_alert_ts, events>>
       ELSE /\ _last_alert_ts' = last_alert_set(_last_alert_ts, floc[g].pid, floc[g].t)
            /\ events' = Append(events, DetOf(floc[g].pid, floc[g].t, floc[g].cs,
                                              floc[g].pid \in pairs))
    /\ floc' = [floc EXCEPT ![g] = NoLocals]
    /\ fpc' = [fpc EXCEPT ![g] = "live"]
    /\ last' = [op |-> "step"]
    /\ UNCHANGED <<now, ntrades, emit, gen, pairs, aggs, sub, stop_flag, ws, nonReload>>

\* run_forever returns (the socket was closed by stop(), or the transport
\* failed) and the reconnect sleep of line 346 is over
FeedDisconnect(g) ==
    /\ fpc[g] = "live"
    /\ ws' = [ws EXCEPT ![g] = "closed"]
    /\ fpc' = [fpc EXCEPT ![g] = "run"]
    /\ last' = [op |-> "step"]
    /\ UNCHANGED <<now, ntrades, _last_alert_ts, events, emit, gen, pairs,
                   aggs, sub, stop_flag, floc, nonReload>>

TickReload ==
    /\ now < ReloadTime
    /\ now' = now + 1
    /\ last' = [op |-> "step"]
    /\ UNCHANGED <<ntrades, _last_alert_ts, events, emit, gen, fpc, pairs, feedVars, nonReload>>

NextReload ==
    \/ HotReload
    \/ HotReloadSame
    \/ EmitCycle
    \/ \E g \in Gens : FeedRunTest(g)
    \/ \E g \in Gens : FeedConnect(g)
    \/ \E g \in Gens : FeedTrade(g)
    \/ \E g \in Gens : FeedCandles(g)
    \/ \E g \in Gens : FeedDedupRead(g)
    \/ \E g \in Gens : FeedDedupWrite(g)
    \/ \E g \in Gens : FeedDisconnect(g)
    \/ TickReload

SpecReload == InitReload /\ [][NextReload]_vars

\* the candle state CandleAgg g holds for pair p
StateOf(g, p) == <<aggs[g].cur[p], aggs[g].hist[p]>>

\* C5: in both emit modes, a reload with overlapping old and new feed threads
\* included, any two DetectionEvents accepted for the same pair are at least
\* DEDUP_SEC apart.
C5_EventsCooldownApart ==
    EventsApart(events)

\* C8: a reload is atomic for detection: an event accepted after the switch is
\* for a pair of the new set, a trade delivered by an old thread leaves the
\* current CandleAgg alone, and the CandleAgg detection reads holds candles of
\* the current universe only.
C8_ReloadAtomicForDetection ==
    [][ /\ \A i \in Len(events) + 1 .. Len(events') : events'[i].tracked
        /\ (last'.op = "trade" /\ last'.g # gen) => aggs'[gen] = aggs[gen]
        /\ \A p \in Pairs \ pairs' : StateOf(gen, p)' = <<None, <<>> >> ]_vars

\* C9: a reload keeps the in-progress candle and the finalized history of
\* every symbol in both the old and the new set, and a reload to the same set
\* leaves the feed threads and the CandleAgg untouched.
C9_ReloadKeepsCommonSymbols ==
    [][ last'.op = "reload" =>
          /\ \A p \in pairs \cap pairs' : StateOf(gen, p)' = StateOf(gen, p)
          /\ pairs' = pairs => UNCHANGED <<gen, fpc, aggs, sub, stop_flag, ws>> ]_vars

----------------------------------------------------------------------------
(* SpecSeed: one CandleAgg of main(): seed_from_rest on the new CandleAgg    *)
(* (lines 515-520, 534-537), then on_trade and flush_if_due in any order.   *)

\* the values of `bars` seed_from_rest is called with
SeedBars == {0, 2, Look + 1}

\* bodies the REST endpoint answers with (Coinbase rows <<time, low, high,
\* open, close, volume>>, newest first or in no order), or a failure
SeedBodies ==
    { [ok |-> FALSE, rows |-> <<>>],
      [ok |-> TRUE, rows |-> <<>>],
      [ok |-> TRUE, rows |-> << <<0 - 2, 1, 2, 1, 2, 2>>, <<0 - 6, 1, 2, 1, 2, 1>>,
                                <<0 - 4, 1, 2, 1, 2, 1>> >>],
      [ok |-> TRUE, rows |-> << <<0 - 2, 1, 2, 1, 2, 2>>, <<0 - 4, 1, 2, 1, 2, 1>>,
                                <<0 - 6, 1, 2, 1, 2, 1>>, <<0 - 8, 1, 2, 1, 2, 1>>,
                                <<0 - 10, 1, 2, 1, 2, 1>> >>] }

InitSeed ==
    /\ CbIdle
    /\ AggIdle
    /\ AlertIdle
    /\ LibIdle
    /\ DedupIdle
    /\ BrkIdle
    /\ ThrIdle
    /\ ScanIdle
    /\ FeedIdle
    /\ now = 0
    /\ last = [op |-> "init"]

\* what a call seed_from_rest(agg, ps, bars) offers each instrument: the rows
\* fetched for it, none when bars is 0, it is not in ps, or its fetch failed
Offered(ps, bars, rest) ==
    [p \in Pairs |-> IF p \in ps /\ bars > 0 /\ rest[p].ok THEN rest[p].rows ELSE <<>>]

\* seed_from_rest(agg, ps, bars) on a CandleAgg just built, the endpoint
\* answering rest[pid] for pid
SeedFromRest ==
    /\ cur = [p \in Pairs |-> None]
    /\ hist = [p \in Pairs |-> <<>>]
    /\ \E ps \in SUBSET Pairs, bars \in SeedBars, rest \in [Pairs -> SeedBodies] :
        /\ hist' = seed_from_rest(hist, ps, bars, rest)
        /\ last' = [op |-> "seed", bars |-> bars, rows |-> Offered(ps, bars, rest)]
    /\ UNCHANGED <<cur, now, ntrades, nonSeed>>

\* agg.on_trade(pid, price, size, tsec) with the trade's time the current time
SeedTrade ==
    /\ ntrades < MaxTrades
    /\ \E pid \in Pairs, tr \in ReloadTrades :
        LET r == on_trade(cur, hist, pid, tr[1], tr[2], now)
        IN  /\ cur' = r[1]
            /\ hist' = r[2]
            /\ last' = [op |-> "on_trade",
                        evicts |-> r[2][pid] # hist[pid] /\ Len(hist[pid]) = Look]
    /\ ntrades' = ntrades + 1
    /\ UNCHANGED <<now, nonSeed>>

\* agg.flush_if_due(time.time())
SeedFlush ==
    /\ LET r == flush_if_due(cur, hist, now)
       IN  /\ cur' = r[1]
           /\ hist' = r[2]
           /\ last' = [op |-> "flush",
                       evicts |-> \E p \in Pairs : r[2][p] # hist[p] /\ Len(hist[p]) = Look]
    /\ UNCHANGED <<now, ntrades, nonSeed>>

SeedTick ==
    /\ now < MaxTime
    /\ now' = now + 1
    /\ last' = [op |-> "tick"]
    /\ UNCHANGED <<cur, hist, ntrades, nonSeed>>

NextSeed ==
    \/ SeedFromRest
    \/ SeedTrade
    \/ SeedFlush
    \/ SeedTick

SpecSeed == InitSeed /\ [][NextSeed]_vars

\* the candle array a Coinbase row stands for
RowCandle(row) ==
    <<row[1], row[4], row[3], row[2], row[5], row[6]>>

\* h is the n most recent of the rows (all of them when there are fewer), oldest first
MostRecentOf(h, rows, n) ==
    /\ Len(h) = (IF Len(rows) < n THEN Len(rows) ELSE n)
    /\ \A i \in 1 .. Len(h) - 1 : h[i][1] < h[i + 1][1]
    /\ \A i \in 1 .. Len(h) : \E k \in 1 .. Len(rows) : h[i] = RowCandle(rows[k])
    /\ \A k \in 1 .. Len(rows) :
          (\A i \in 1 .. Len(h) : h[i] # RowCandle(rows[k])) =>
              \A i \in 1 .. Len(h) : rows[k][1] < h[i][1]

\* C11: the finalized history of every instrument holds at most `lookback`
\* candles; a finalization appends the candle and, at capacity, evicts the
\* oldest one; seeding installs the min(bars, lookback) most recent candles of
\* the answer, oldest first, and leaves an instrument alone when bars is 0, it
\* is not asked for, or its fetch fails or is empty.
C11_HistoryBoundedOldestEvicted ==
    [][ /\ \A p \in Pairs : Len(hist'[p]) <= Look
        /\ last'.op \in {"on_trade", "flush"} =>
              \A p \in Pairs : hist'[p] # hist[p] =>
                  /\ cur[p] # None
                  /\ hist'[p] = Append(IF Len(hist[p]) < Look THEN hist[p] ELSE Tail(hist[p]),
                                       ArrOf(cur[p]))
        /\ last'.op = "seed" =>
              \A p \in Pairs :
                  IF last'.rows[p] # <<>>
                  THEN MostRecentOf(hist'[p], last'.rows[p],
                                    IF last'.bars < Look THEN last'.bars ELSE Look)
                  ELSE hist'[p] = hist[p] ]_vars

\* a seeded history at capacity has lost its oldest candle to a finalization
C11_Witness ==
    /\ last.op \in {"on_trade", "flush"}
    /\ last.evicts
    /\ \E p \in Pairs : Len(hist[p]) = Look /\ hist[p][1][1] < 0 /\ hist[p][Look][1] >= 0

----------------------------------------------------------------------------
(* SpecBackfill: main() in on_minute mode with REST backfill on and two     *)
(* instruments: the startup seeding, then live trades and the main loop.    *)

\* the clock of the startup scenario stops here: SB_WIN candle intervals
BackfillTime == 6

\* the live trades of the startup scenario: one per candle of a window
BackfillTrades == 3

\* what the endpoint can answer the startup fetch of an instrument with: a
\* failure, an empty list, or rows
BackfillBodies ==
    RestBodies \cup {[ok |-> TRUE, rows |-> <<>>]}

\* main() up to line 515: pairs loaded, the CandleAgg built
InitBackfill ==
    /\ CbIdle
    /\ AggIdle
    /\ DedupIdle
    /\ BrkIdle
    /\ FeedIdle
    /\ emit = "on_minute"
    /\ gen = 0
    /\ fpc = [g \in Gens |-> "none"]
    /\ lockh = [g \in Gens |-> "free"]
    /\ save = TRUE
    /\ jsonl = <<>>
    /\ dlv = NoDelivery
    /\ LibIdle
    /\ fetched \in [Pairs -> BackfillBodies]
    /\ pairs = Pairs
    /\ events = <<>>
    /\ mpc = "seed"
    /\ now = 0
    /\ last = [op |-> "init", n |-> 0]

\* lines 518-522: seed_from_rest(agg, pairs, BACKFILL_BARS), then start_ws
BackfillSeed ==
    /\ mpc = "seed"
    /\ hist' = (IF BACKFILL_ENABLED /\ BACKFILL_BARS > 0
                THEN seed_from_rest(hist, pairs, BACKFILL_BARS, fetched) ELSE hist)
    /\ mpc' = "loop"
    /\ last' = [op |-> "seed", n |-> 0]
    /\ UNCHANGED <<cur, now, ntrades, _last_alert_ts, pairs, events, fetched, nonBackfill>>

\* the feed thread: _on_trade(pid, price, size, tsec) with the trade's time the current time
BackfillTrade ==
    /\ mpc = "loop"
    /\ ntrades < BackfillTrades
    /\ \E pid \in pairs, tr \in ReloadTrades :
        LET r == on_trade(cur, hist, pid, tr[1], tr[2], now)
        IN  /\ cur' = r[1]
            /\ hist' = r[2]
    /\ ntrades' = ntrades + 1
    /\ last' = [op |-> "on_trade", n |-> 0]
    /\ UNCHANGED <<now, mpc, _last_alert_ts, pairs, events, fetched, nonBackfill>>

\* one iteration of the main loop, lines 543-548
BackfillCycle ==
    /\ mpc = "loop"
    /\ LET f == flush_if_due(cur, hist, now)
           r == emit_cycle(pairs, _last_alert_ts, events, f[2], now)
       IN  /\ cur' = f[1]
           /\ hist' = f[2]
           /\ _last_alert_ts' = r[1]
           /\ events' = r[2]
           /\ last' = [op |-> "cycle", n |-> Len(r[2]) - Len(events)]
    /\ UNCHANGED <<now, mpc, ntrades, pairs, fetched, nonBackfill>>

BackfillTick ==
    /\ now < BackfillTime
    /\ now' = now + 1
    /\ last' = [op |-> "tick", n |-> 0]
    /\ UNCHANGED <<cur, hist, mpc, ntrades, _last_alert_ts, pairs, events, fetched, nonBackfill>>

NextBackfill ==
    \/ BackfillSeed
    \/ BackfillTrade
    \/ BackfillCycle
    \/ BackfillTick

SpecBackfill == InitBackfill /\ [][NextBackfill]_vars

\* the startup fetch of p failed or came back empty
FetchEmpty(p) ==
    ~fetched[p].ok \/ fetched[p].rows = <<>>

\* C12: the startup seeding leaves an instrument whose fetch failed or was
\* empty with an empty history, seeds every other instrument, and lets startup
\* go on; after that a detection cycle emits for an instrument, seeded or not,
\* exactly when it has at least SB_WIN finalized candles that are a breakout
\* and the deduplicator accepts.
C12_FailedFetchStartsEmpty ==
    [][ /\ last'.op = "seed" =>
              /\ mpc' = "loop"
              /\ \A p \in pairs :
                    IF FetchEmpty(p) THEN hist'[p] = <<>>
                    ELSE MostRecentOf(hist'[p], fetched[p].rows,
                                      IF BACKFILL_BARS < Look THEN BACKFILL_BARS ELSE Look)
        /\ last'.op = "cycle" =>
              \A p \in pairs :
                 LET old   == EventsOf(events, p, Len(events))
                     new   == EventsOf(events', p, Len(events')) \ old
                     fresh == IF old = {} THEN now >= DEDUP_SEC
                              ELSE \A i \in old : now - events[i].t >= DEDUP_SEC
                 IN  new # {} <=> (Len(hist'[p]) >= SB_WIN /\ IsBreakout(hist'[p]) /\ fresh) ]_vars

\* the fetch of one instrument failed and the other was seeded; the failed one
\* has built SB_WIN candles from live trades and a cycle has emitted for it
C12_Witness ==
    /\ last.op = "cycle" /\ last.n > 0
    /\ \E p, q \in pairs :
          /\ FetchEmpty(p)
          /\ ~FetchEmpty(q)
          /\ hist[q] # <<>>
          /\ Len(hist[p]) = SB_WIN
          /\ events[Len(events)].pair = p
          /\ events[Len(events)].cs = hist[p]

----------------------------------------------------------------------------
(* SpecFeed: one CBWebSocket thread (the one of CandleAgg 0) from start() to *)
(* its end, against a transport that can refuse, open, deliver and drop, and *)
(* a main thread that may call stop().                                       *)

\* the variables SpecFeed leaves alone
nonFeed == <<cur, hist, run, dedupVars, brkVars, emit, gen, mpc, lockh, scanVars, floc, alertVars, cbVars>>

\* how _loop can end: the import check, a return of run_forever, or an exception
LoopOutcomes == {"nolib", "returned", "raised"}

\* run() treating an exception of _loop as the end of the thread
after_loop_raise_fatal(outcome) ==
    IF outcome = "raised" THEN "dead" ELSE "sleep"

\* run() lines 344-346: whatever _loop did, the thread goes on to time.sleep
after_loop(outcome) ==
    "sleep"

\* start_ws, lines 512-513: the thread is built for the universe and started
InitFeed ==
    /\ CbIdle
    /\ AggIdle
    /\ DedupIdle
    /\ BrkIdle
    /\ ScanIdle
    /\ AlertIdle
    /\ emit = "on_minute"
    /\ gen = 0
    /\ mpc = "loop"
    /\ lockh = [g \in Gens |-> "free"]
    /\ aggs = [g \in Gens |-> [cur |-> [p \in Pairs |-> None], hist |-> [p \in Pairs |-> <<>>]]]
    /\ sub = [g \in Gens |-> IF g = 0 THEN Pairs ELSE {}]
    /\ stop_flag = [g \in Gens |-> FALSE]
    /\ ws = [g \in Gens |-> "none"]
    /\ floc = [g \in Gens |-> NoLocals]
    /\ fpc = [g \in Gens |-> IF g = 0 THEN "run" ELSE "none"]
    /\ websocket \in {"module", "None"}
    /\ now = 0
    /\ last = [op |-> "init"]

\* run() line 343: the test of stop_flag
WsRunTest ==
    /\ fpc[0] = "run"
    /\ fpc' = [fpc EXCEPT ![0] = IF stop_flag[0] THEN "dead" ELSE "loop"]
    /\ last' = [op |-> "test"]
    /\ UNCHANGED <<now, ntrades, aggs, sub, stop_flag, ws, websocket, nonFeed>>

\* _loop lines 349-351 and 376-378: without the library the thread asks itself
\* to stop; with it, a new socket is assigned to self.ws and run_forever begins
WsLoopStart ==
    /\ fpc[0] = "loop"
    /\ IF websocket = "None"
       THEN /\ stop_flag' = [stop_flag EXCEPT ![0] = TRUE]
            /\ fpc' = [fpc EXCEPT ![0] = after_loop("nolib")]
            /\ ws' = ws
       ELSE /\ ws' = [ws EXCEPT ![0] = "connecting"]
            /\ fpc' = [fpc EXCEPT ![0] = "forever"]
            /\ stop_flag' = stop_flag
    /\ last' = [op |-> "connect", again |-> ws[0] = "closed"]
    /\ UNCHANGED <<now, ntrades, aggs, sub, websocket, nonFeed>>

\* on_open, lines 353-356: the connection is up and the subscribe message is sent
WsOnOpen ==
    /\ fpc[0] = "forever"
    /\ ws[0] = "connecting"
    /\ ws' = [ws EXCEPT ![0] = "subscribed"]
    /\ last' = [op |-> "subscribe"]
    /\ UNCHANGED <<now, ntrades, fpc, aggs, sub, stop_flag, websocket, nonFeed>>

\* WS_CHANNEL, line 89
WS_CHANNEL == "matches"

\* a well-formed trade message of the matches channel
TradeMsg(pid, tr) ==
    [json |-> "object", type |-> "match", pid |-> pid, price |-> <<"num", tr[1]>>, size |-> <<"num", tr[2]>>]

\* the messages a connection can deliver: the trades of the subscribed pairs,
\* and for pair "A": text that is not JSON, JSON that is not an object, a
\* message without product_id, one of another type, and trades whose price is
\* missing, zero or not a number, or whose size is not a number
Messages(ps) ==
    {TradeMsg(pid, tr) : pid \in ps, tr \in ReloadTrades}
    \cup {[TradeMsg("A", <<1, 1>>) EXCEPT !.json = "invalid"],
          [TradeMsg("A", <<1, 1>>) EXCEPT !.json = "array"],
          [TradeMsg("A", <<1, 1>>) EXCEPT !.pid = ""],
          [TradeMsg("A", <<1, 1>>) EXCEPT !.type = "subscriptions"],
          [TradeMsg("A", <<1, 1>>) EXCEPT !.price = <<"missing", 0>>],
          [TradeMsg("A", <<1, 1>>) EXCEPT !.price = <<"num", 0>>],
          [TradeMsg("A", <<1, 1>>) EXCEPT !.price = <<"text", 0>>],
          [TradeMsg("A", <<1, 1>>) EXCEPT !.size = <<"text", 0>>]}

\* float(m.get(key) or 0.0), lines 364 and 366: does it raise
float_raises(field) ==
    field[1] = "text"

\* on_message wrapped in a handler that returns on every exception
on_message_guarded(m) ==
    IF m.json # "object" THEN "return"
    ELSE IF m.pid = "" THEN "return"
    ELSE IF ~((WS_CHANNEL = "matches" /\ m.type \in {"match", "last_match"})
              \/ (WS_CHANNEL = "ticker" /\ m.type = "ticker")) THEN "return"
    ELSE IF float_raises(m.price) \/ float_raises(m.size) THEN "return"
    ELSE IF m.price[1] = "missing" \/ m.price[2] = 0 THEN "return"
    ELSE "call"

\* on_message, lines 358-371: "return" (dropped), "raise" (an exception leaves
\* the handler) or "call" (on_trade is invoked)
on_message(m) ==
    IF m.json = "invalid" THEN "return"
    ELSE IF m.json # "object" THEN "raise"
    ELSE IF m.pid = "" THEN "return"
    ELSE IF ~((WS_CHANNEL = "matches" /\ m.type \in {"match", "last_match"})
              \/ (WS_CHANNEL = "ticker" /\ m.type = "ticker")) THEN "return"
    ELSE IF float_raises(m.price) \/ float_raises(m.size) THEN "raise"
    ELSE IF m.price[1] = "missing" \/ m.price[2] = 0 THEN "return"
    ELSE "call"

\* on_message with a message of the connection, lines 358-371 and 507: possible
\* only on a connection the exchange holds a subscription for
WsOnMessage ==
    /\ fpc[0] = "forever"
    /\ ws[0] = "subscribed"
    /\ ntrades < MaxTrades
    /\ \E m \in Messages(sub[0]) :
        LET o == on_message(m)
            r == on_trade(aggs[0].cur, aggs[0].hist, m.pid, m.price[2], m.size[2], now)
        IN  /\ aggs' = (IF o = "call" THEN [aggs EXCEPT ![0] = [cur |-> r[1], hist |-> r[2]]] ELSE aggs)
            /\ last' = [op |-> IF o = "call" THEN "on_trade" ELSE "on_message", m |-> m, outcome |-> o]
    /\ ntrades' = ntrades + 1
    /\ UNCHANGED <<now, fpc, sub, stop_flag, ws, websocket, nonFeed>>

\* run_forever ends, line 378: the connection was refused, failed or was closed
\* (by the peer, or by stop() closing the socket); it returns or raises
WsLoopEnd ==
    /\ fpc[0] = "forever"
    /\ \E outcome \in LoopOutcomes \ {"nolib"} :
          /\ fpc' = [fpc EXCEPT ![0] = after_loop(outcome)]
          /\ last' = [op |-> "loop_end", outcome |-> outcome]
    /\ ws' = [ws EXCEPT ![0] = "closed"]
    /\ UNCHANGED <<now, ntrades, aggs, sub, stop_flag, websocket, nonFeed>>

\* run() line 346: time.sleep(max(WS_RECONNECT, 2)) is over
WsSleep ==
    /\ fpc[0] = "sleep"
    /\ fpc' = [fpc EXCEPT ![0] = "run"]
    /\ last' = [op |-> "slept"]
    /\ UNCHANGED <<now, ntrades, aggs, sub, stop_flag, ws, websocket, nonFeed>>

\* the main thread calls stop(), lines 380-385: the flag is set and a socket
\* that exists is closed (run_forever notices in WsLoopEnd)
WsStop ==
    /\ ~stop_flag[0]
    /\ stop_flag' = [stop_flag EXCEPT ![0] = TRUE]
    /\ ws' = [ws EXCEPT ![0] = IF ws[0] \in {"connecting", "subscribed"} THEN "closing" ELSE ws[0]]
    /\ last' = [op |-> "stop"]
    /\ UNCHANGED <<now, ntrades, fpc, aggs, sub, websocket, nonFeed>>

WsTick ==
    /\ now < MaxTime
    /\ now' = now + 1
    /\ last' = [op |-> "tick"]
    /\ UNCHANGED <<ntrades, fpc, aggs, sub, stop_flag, ws, websocket, nonFeed>>

NextFeed ==
    \/ WsRunTest
    \/ WsLoopStart
    \/ WsOnOpen
    \/ WsOnMessage
    \/ WsLoopEnd
    \/ WsSleep
    \/ WsStop
    \/ WsTick

SpecFeed == InitFeed /\ [][NextFeed]_vars

\* the thread is scheduled, and its sleep ends: the three steps of run() that
\* wait for nothing but the thread itself
FairFeed ==
    /\ WF_vars(WsRunTest)
    /\ WF_vars(WsLoopStart)
    /\ WF_vars(WsSleep)

SpecFeedFair == SpecFeed /\ FairFeed

\* C13: when run_forever ends, by return or by exception, the thread goes to its
\* reconnect sleep, and unless a stop was requested it then connects again,
\* every time; the thread ends only after stop_flag was set; on_trade is
\* called only on a subscribed connection.
C13_FeedReconnectsUntilStopped ==
    /\ [][ /\ last'.op = "loop_end" => fpc'[0] = "sleep"
           /\ (fpc'[0] = "dead" /\ fpc[0] # "dead") => stop_flag[0]
           /\ (fpc'[0] = "run" /\ fpc[0] # "run") => fpc[0] = "sleep"
           /\ (fpc'[0] = "loop" /\ fpc[0] # "loop") => (fpc[0] = "run" /\ ~stop_flag[0])
           /\ (ws'[0] = "connecting" /\ ws[0] # "connecting") => fpc[0] = "loop"
           /\ last'.op = "on_trade" => (ws[0] = "subscribed" /\ fpc[0] = "forever") ]_vars
    /\ [](fpc[0] = "sleep" /\ ~stop_flag[0] => <>(ws[0] = "connecting" \/ stop_flag[0]))

\* a connection that had delivered a trade ended, the thread slept, found no
\* stop requested and has begun the next connection
C13_Witness ==
    /\ last.op = "connect"
    /\ last.again
    /\ ws[0] = "connecting"
    /\ ~stop_flag[0]
    /\ \E p \in Pairs : aggs[0].cur[p] # None

----------------------------------------------------------------------------
(* SpecAlert: try_detect past the deduplicator (lines 443-492): the log      *)
(* write, then send_discord and its _post_webhook calls against a sink that  *)
(* answers as it likes, called from the main loop (on_minute) or from the    *)
(* feed thread's _on_trade (on_trade), with the other thread running.        *)

\* the variables SpecAlert leaves alone
nonAlert == <<run, dedupVars, brkVars, gen, fpc, lockh, pairs, feedVars, fetched, libVars, cbVars>>

\* the detections accepted in one run
MaxAlerts == 2

\* the clock of the alert scenario stops here
AlertTime == 2

\* _post_webhook line 109: range(1, 6)
POST_TRIES == 5

\* line 78: a detections webhook is configured
DISCORD_WEBHOOK == TRUE

\* lines 135-136 with the message of lines 473-480, which holds "•" and "×":
\* the simplified content differs from the message
msg_simplifiable == TRUE

\* what the sink can do with one POST: a transport exception, a 2xx, another
\* status, or a 429 whose JSON body has a numeric retry_after (2, or -1), has
\* no retry_after, or is unusable, with a Retry-After header that is numeric
\* (3), absent, or not a number
Responses ==
    { [kind |-> "exception", body |-> <<"na", 0>>, header |-> <<"na", 0>>],
      [kind |-> "2xx",       body |-> <<"na", 0>>, header |-> <<"na", 0>>],
      [kind |-> "other",     body |-> <<"na", 0>>, header |-> <<"na", 0>>],
      [kind |-> "429",       body |-> <<"num", 2>>,     header |-> <<"absent", 0>>],
      [kind |-> "429",       body |-> <<"num", 0 - 1>>, header |-> <<"absent", 0>>],
      [kind |-> "429",       body |-> <<"nokey", 0>>,   header |-> <<"num", 3>>],
      [kind |-> "429",       body |-> <<"bad", 0>>,     header |-> <<"num", 3>>],
      [kind |-> "429",       body |-> <<"bad", 0>>,     header |-> <<"absent", 0>>],
      [kind |-> "429",       body |-> <<"bad", 0>>,     header |-> <<"bad", 0>>] }

\* how the writes of lines 467-469 can go: both succeed, append_jsonl raises,
\* or append_jsonl succeeds and append_csv raises
LogOutcomes == {"ok", "error", "csv_error"}

\* _post_webhook lines 118-121: <<"ok", wait>>, or <<"raise", 0>> when float()
\* of the header raises inside the except clause
retry_wait(r) ==
    IF r.body[1] = "num" THEN <<"ok", IF r.body[2] > 0 THEN r.body[2] ELSE 0>>
    ELSE IF r.body[1] = "nokey" THEN <<"ok", 1>>
    ELSE IF r.header[1] = "num" THEN <<"ok", IF r.header[2] > 0 THEN r.header[2] ELSE 0>>
    ELSE IF r.header[1] = "absent" THEN <<"ok", 1>>
    ELSE <<"raise", 0>>

\* _post_webhook never leaving its loop
more_tries_always(attempt) ==
    TRUE

\* _post_webhook line 109: is there another iteration after `attempt`
more_tries(attempt) ==
    attempt < POST_TRIES

\* append_jsonl opening the log for writing instead of appending
append_jsonl_truncating(lines, payload) ==
    <<payload>>

\* append_jsonl, lines 140-143: one write of the whole line at the end of the file
append_jsonl(lines, payload) ==
    Append(lines, payload)

\* send_discord lines 133-138 when a _post_webhook call returned ok: the delivery after it
call_end(d, ok) ==
    IF d.call = 1 /\ ~ok /\ msg_simplifiable
    THEN [d EXCEPT !.call = 2, !.attempt = 1, !.stage = "post", !.wait = 0]
    ELSE NoDelivery

\* the thread that runs try_detect: lines 545-548 or lines 508-511
detector == IF emit = "on_minute" THEN "main" ELSE "feed"

\* the main loop is at the top of an iteration: not ended, not inside a delivery
main_can_cycle == mpc = "loop" /\ dlv.by # "main"

\* the feed thread can run a callback: the process lives and the thread is not inside a delivery
feed_can_trade == mpc # "crashed" /\ dlv.by # "feed"

\* main() up to the loop, a CandleAgg for pair "A"
InitAlert ==
    /\ CbIdle
    /\ AggIdle
    /\ DedupIdle
    /\ BrkIdle
    /\ FeedIdle
    /\ LibIdle
    /\ gen = 0
    /\ fpc = [g \in Gens |-> "none"]
    /\ lockh = [g \in Gens |-> "free"]
    /\ pairs = {"A"}
    /\ fetched = [p \in Pairs |-> FetchFailed]
    /\ emit \in {"on_minute", "on_trade"}
    /\ save \in BOOLEAN
    /\ jsonl = <<>>
    /\ dlv = NoDelivery
    /\ events = <<>>
    /\ mpc = "loop"
    /\ now = 0
    /\ last = [op |-> "init"]

\* an exception leaves try_detect in thread `who`: in the main loop nothing
\* catches it (lines 524-555 catch KeyboardInterrupt only); in the feed thread
\* it ends the callback
Raised(who) ==
    IF who = "main" THEN "crashed" ELSE mpc

\* try_detect lines 443-492 up to the first POST, for a detection of pid the
\* deduplicator accepted
BeginAlert(who, pid, op) ==
    LET det == [id |-> Len(events) + 1, pair |-> pid, t |-> now]
    IN  /\ events' = Append(events, det)
        /\ \E out \in (IF save THEN LogOutcomes ELSE {"off"}) :
              /\ jsonl' = (IF out \in {"ok", "csv_error"} THEN append_jsonl(jsonl, det) ELSE jsonl)
              /\ IF out \in {"error", "csv_error"}
                 THEN /\ dlv' = NoDelivery
                      /\ mpc' = Raised(who)
                 ELSE /\ dlv' = (IF DISCORD_WEBHOOK
                                 THEN [by |-> who, id |-> det.id, call |-> 1, attempt |-> 1,
                                       stage |-> "post", posts |-> 0, wait |-> 0]
                                 ELSE NoDelivery)
                      /\ mpc' = mpc
              /\ last' = [op |-> op, accepted |-> TRUE, log |-> out]

\* one iteration of the main loop, lines 543-548: flush_if_due, then in
\* on_minute mode the detection pass, which may accept a detection
AlertMainCycle ==
    /\ main_can_cycle
    /\ LET f == flush_if_due(cur, hist, now)
       IN  /\ cur' = f[1]
           /\ hist' = f[2]
    /\ \/ /\ detector = "main"
          /\ Len(events) < MaxAlerts
          /\ \E pid \in pairs : BeginAlert("main", pid, "cycle")
       \/ /\ last' = [op |-> "cycle", accepted |-> FALSE, log |-> "none"]
          /\ UNCHANGED <<events, jsonl, dlv, mpc>>
    /\ UNCHANGED <<now, ntrades, emit, save, nonAlert>>

\* _on_trade, lines 506-511: agg.on_trade, then in on_trade mode try_detect,
\* which may accept a detection
AlertFeedTrade ==
    /\ feed_can_trade
    /\ ntrades < MaxTrades
    /\ \E pid \in pairs :
        /\ \E tr \in ReloadTrades :
              LET r == on_trade(cur, hist, pid, tr[1], tr[2], now)
              IN  /\ cur' = r[1]
                  /\ hist' = r[2]
        /\ \/ /\ detector = "feed"
              /\ Len(events) < MaxAlerts
              /\ BeginAlert("feed", pid, "on_trade")
           \/ /\ last' = [op |-> "on_trade", accepted |-> FALSE, log |-> "none"]
              /\ UNCHANGED <<events, jsonl, dlv, mpc>>
    /\ ntrades' = ntrades + 1
    /\ UNCHANGED <<now, emit, save, nonAlert>>

\* _post_webhook lines 111-126: one requests.post and what its answer leads to
AlertPost ==
    /\ dlv.by # "none"
    /\ dlv.stage = "post"
    /\ mpc # "crashed"
    /\ \E r \in Responses :
        LET d == [dlv EXCEPT !.posts = dlv.posts + 1]
            w == retry_wait(r)
        IN  /\ last' = [op |-> "post", resp |-> r, posts |-> d.posts]
            /\ IF r.kind = "2xx" THEN dlv' = call_end(d, TRUE) /\ mpc' = mpc
               ELSE IF r.kind # "429" THEN dlv' = call_end(d, FALSE) /\ mpc' = mpc
               ELSE IF w[1] = "raise" THEN dlv' = NoDelivery /\ mpc' = Raised(dlv.by)
               ELSE dlv' = [d EXCEPT !.stage = "sleep", !.wait = w[2]] /\ mpc' = mpc
    /\ UNCHANGED <<cur, hist, now, ntrades, emit, save, jsonl, events, nonAlert>>

\* _post_webhook lines 123-124 and 127: time.sleep(wait) is over; the next
\* iteration, or the end of the loop and return False
AlertSleepDone ==
    /\ dlv.by # "none"
    /\ dlv.stage = "sleep"
    /\ mpc # "crashed"
    /\ dlv' = (IF more_tries(dlv.attempt)
               THEN [dlv EXCEPT !.attempt = dlv.attempt + 1, !.stage = "post", !.wait = 0]
               ELSE call_end(dlv, FALSE))
    /\ last' = [op |-> "slept", posts |-> dlv.posts]
    /\ UNCHANGED <<cur, hist, now, ntrades, emit, save, jsonl, events, mpc, nonAlert>>

AlertTick ==
    /\ now < AlertTime
    /\ mpc # "crashed"
    /\ now' = now + 1
    /\ last' = [op |-> "tick"]
    /\ UNCHANGED <<cur, hist, ntrades, emit, save, jsonl, dlv, events, mpc, nonAlert>>

NextAlert ==
    \/ AlertMainCycle
    \/ AlertFeedTrade
    \/ AlertPost
    \/ AlertSleepDone
    \/ AlertTick

SpecAlert == InitAlert /\ [][NextAlert]_vars

\* the steps on which try_detect got a detection past the deduplicator
AcceptStep(l) ==
    l.op \in {"cycle", "on_trade"} /\ l.accepted

C16_DeliveryStarvesNothing ==
    dlv.by # "none" => (main_can_cycle /\ feed_can_trade)

\* C17: whatever the sink and the log writes do, the main loop is running.
C17_MainLoopKeepsRunning ==
    mpc # "crashed"

----------------------------------------------------------------------------
(* SpecFilt: apply_filters, the indicators, is_breakout_window and           *)
(* try_detect applied to candle lists of every length up to the history the  *)
(* slowest indicator needs, under every setting of the filter switches.      *)

\* the variables SpecFilt leaves alone
nonFilt == <<aggVars, thrVars, pairs, feedVars, alertVars, libVars, cbVars>>

\* the longest candle list: what compute_macd asks for under MACD_SLOW and MACD_SIG
FiltLen == MACD_SLOW + MACD_SIG

\* the settings of the POST_FILTERS switches, lines 47-64
PFs ==
    [enabled : BOOLEAN, logic : {"ALL", "ANY"}, rsi : BOOLEAN, vpm : BOOLEAN,
     macd : BOOLEAN, rule : {"hist_up", "line_cross", "both"}]

\* the periods compute_rsi is called with
RsiPeriods == {1, 2, 3}

\* the closes of the candles: one more than the trade prices, so that three
\* closes can rise strictly
FiltPrices == 1 .. MaxPrice + 1

\* the values of VOLMIN_LOOK the VPM average is computed under
VpmLooks == {1, 2, 3}

\* the <<fast, slow, signal>> compute_macd is called with
MacdParams == {<<1, 2, 1>>, <<1, 2, 2>>, <<1, 3, 1>>, <<2, 3, 2>>}

InitFilt ==
    /\ CbIdle
    /\ AggIdle
    /\ AlertIdle
    /\ LibIdle
    /\ DedupIdle
    /\ BrkIdle
    /\ ThrIdle
    /\ FeedIdle
    /\ pairs = {"A"}
    /\ events = <<>>
    /\ now = DEDUP_SEC
    /\ last = [op |-> "init"]

\* one more finalized candle [b, o, h, l, c, v], made by trades at one price;
\* brk is cleared, and each function below is applied to a list whose brk is clear
FiltAppend ==
    /\ Len(cset) < FiltLen
    /\ \E c \in FiltPrices, v \in Sizes :
          cset' = Append(cset, <<CANDLE_INTERVAL * Len(cset), c, c, c, c, v>>)
    /\ brk' = None
    /\ last' = [op |-> "append"]
    /\ UNCHANGED <<now, _last_alert_ts, events, nonFilt>>

\* apply_filters(candles) under some setting of the switches
FiltApply ==
    /\ brk = None
    /\ \E pf \in PFs :
          /\ brk' = apply_filters_in(pf, cset)
          /\ last' = [op |-> "apply_filters", pf |-> pf]
    /\ UNCHANGED <<now, cset, _last_alert_ts, events, nonFilt>>

\* is_breakout_window(cset, ...) with the configured thresholds
FiltBreakout ==
    /\ brk = None
    /\ brk' = is_breakout_window(cset, SB_PCT_OVER_HIGH, SB_VOL_RATIO, ABS_VOL_MIN_USD)
    /\ last' = [op |-> "is_breakout_window"]
    /\ UNCHANGED <<now, cset, _last_alert_ts, events, nonFilt>>

\* compute_rsi(closes, period)
FiltRsi ==
    /\ brk = None
    /\ \E period \in RsiPeriods :
          /\ brk' = compute_rsi(ClosesOf(cset), period)
          /\ last' = [op |-> "compute_rsi", period |-> period]
    /\ UNCHANGED <<now, cset, _last_alert_ts, events, nonFilt>>

\* compute_macd(closes, fast, slow, signal)
FiltMacd ==
    /\ brk = None
    /\ \E q \in MacdParams :
          /\ brk' = compute_macd(ClosesOf(cset), q[1], q[2], q[3])
          /\ last' = [op |-> "compute_macd", slow |-> q[2], signal |-> q[3]]
    /\ UNCHANGED <<now, cset, _last_alert_ts, events, nonFilt>>

\* lines 246-254 of apply_filters with the VPM filter on and some lookback
FiltVpm ==
    /\ brk = None
    /\ \E look \in VpmLooks :
          /\ brk' = vpm_info_look(TRUE, cset, look)
          /\ last' = [op |-> "vpm", look |-> look]
    /\ UNCHANGED <<now, cset, _last_alert_ts, events, nonFilt>>

\* try_detect("A", cset), lines 433-466
FiltDetect ==
    /\ brk = None
    /\ LET r == try_detect(_last_alert_ts, "A", cset, now)
       IN  /\ _last_alert_ts' = r.d
           /\ events' = (IF r.det THEN Append(events, DetOf("A", now, cset, TRUE)) ELSE events)
           /\ brk' = [det |-> r.det]
           /\ last' = [op |-> "try_detect", det |-> r.det]
    /\ UNCHANGED <<now, cset, nonFilt>>

NextFilt ==
    \/ FiltAppend
    \/ FiltApply
    \/ FiltBreakout
    \/ FiltRsi
    \/ FiltMacd
    \/ FiltVpm
    \/ FiltDetect

SpecFilt == InitFilt /\ [][NextFilt]_vars

\* the RSI of the closes of cs lies within the preset's [low, high]
RsiInRange(cs) ==
    LET v == compute_rsi(ClosesOf(cs), RSI_PERIOD).val
        b == rsi_bounds_from_preset(RSI_MIN, RSI_MAX)
    IN  v[1] >= b[1] * v[2] /\ v[1] <= b[2] * v[2]

\* the average USD volume of the VOLMIN_LOOK last candles of cs but the current
\* one is at least the floor
VpmAtFloor(cs) ==
    LET w == LastN(cs, VOLMIN_LOOK)
        n == IF Len(w) > 1 THEN Len(w) - 1 ELSE 1
    IN  SeqSum([i \in 1 .. n |-> w[i][6] * w[i][5]]) >= VOLMIN_FLOOR * n

\* the MACD of the closes of cs satisfies the rule
MacdRuleHolds(cs, rule) ==
    LET m == compute_macd(ClosesOf(cs), MACD_FAST, MACD_SLOW, MACD_SIG)
    IN  IF rule = "hist_up" THEN RatGt(m.hist, <<0, 1>>)
        ELSE IF rule = "line_cross" THEN RatGt(m.macd, m.signal)
        ELSE RatGt(m.hist, <<0, 1>>) /\ RatGt(m.macd, m.signal)

\* one check of apply_filters: passed when its filter is off, when there is
\* too little history for its value, or when the value meets the condition
CheckRsi(pf, cs) ==
    ~pf.rsi \/ Len(cs) < RSI_PERIOD + 1 \/ RsiInRange(cs)

CheckVpm(pf, cs) ==
    ~pf.vpm \/ Len(cs) < (IF VOLMIN_LOOK > 2 THEN VOLMIN_LOOK ELSE 2) \/ VpmAtFloor(cs)

CheckMacd(pf, cs) ==
    ~pf.macd \/ Len(cs) < MACD_SLOW + MACD_SIG \/ MacdRuleHolds(cs, pf.rule)

\* C18: apply_filters passes when the master switch is off; when it is on, the
\* result is the conjunction (ALL) or the disjunction (any other logic) of the
\* RSI, VPM and MACD checks, each of which counts as passed when its filter is
\* disabled or its value cannot be computed for lack of history.
C18_FiltersCombineChecks ==
    [][ last'.op = "apply_filters" =>
          LET pf == last'.pf
          IN  brk'.ok <=>
                 \/ ~pf.enabled
                 \/ /\ pf.logic = "ALL"
                    /\ CheckRsi(pf, cset) /\ CheckVpm(pf, cset) /\ CheckMacd(pf, cset)
                 \/ /\ pf.logic # "ALL"
                    /\ (CheckRsi(pf, cset) \/ CheckVpm(pf, cset) \/ CheckMacd(pf, cset)) ]_vars

\* all filters on under ALL, enough history for RSI and VPM but not for MACD:
\* the two computed checks hold and the result is pass
C18_Witness ==
    /\ last.op = "apply_filters"
    /\ last.pf.enabled /\ last.pf.logic = "ALL"
    /\ last.pf.rsi /\ last.pf.vpm /\ last.pf.macd
    /\ Len(cset) = RSI_PERIOD + 1
    /\ Len(cset) < MACD_SLOW + MACD_SIG
    /\ ~brk.rsi.none
    /\ ~brk.vpm_avg_usd.none
    /\ brk.macd_hist.none
    /\ brk.ok

\* C19: is_breakout_window gives no hit for fewer than 3 candles, compute_rsi
\* no value for fewer than period + 1 closes, compute_macd no value for fewer
\* than slow + signal closes, and try_detect accepts nothing and records
\* nothing for a window that is not a hit.
C19_TooLittleDataIsNoHitNoValue ==
    [][ /\ (last'.op = "is_breakout_window" /\ Len(cset) < 3) =>
              (~brk'.hit /\ brk'.info = <<>>)
        /\ (last'.op = "compute_rsi" /\ Len(cset) < last'.period + 1) => brk'.none
        /\ (last'.op = "compute_macd" /\ Len(cset) < last'.slow + last'.signal) => brk'.none
        /\ (last'.op = "try_detect" /\ (Len(cset) < 3 \/ ~is_breakout_window(
                 LastN(cset, IF SB_WIN > 3 THEN SB_WIN ELSE 3),
                 SB_PCT_OVER_HIGH, SB_VOL_RATIO, ABS_VOL_MIN_USD).hit)) =>
              (~last'.det /\ events' = events /\ _last_alert_ts' = _last_alert_ts) ]_vars

\* compute_macd has answered no value for three closes, one fewer than
\* slow + signal, although three are a breakout window
C19_Witness ==
    /\ last.op = "compute_macd"
    /\ Len(cset) = last.slow + last.signal - 1
    /\ Len(cset) >= last.slow
    /\ brk.none
    /\ is_breakout_window(cset, SB_PCT_OVER_HIGH, SB_VOL_RATIO, ABS_VOL_MIN_USD).hit

\* C21: whenever the VPM average is computed, it is the mean of volume * close
\* over the candles before the latest one among the `look` most recent
\* candles, of which there is at least one; the latest candle is not in it.
C21_VpmAverageExcludesLatest ==
    [][(last'.op = "vpm" /\ ~brk'.none) =>
          LET w == LastN(cset, last'.look)
              n == Len(w) - 1
          IN  /\ n >= 1
              /\ brk'.val[1] * n = brk'.val[2] * SeqSum([i \in 1 .. n |-> w[i][6] * w[i][5]])]_vars

\* the closes of cs rise strictly
StrictlyIncreasing(cs) ==
    \A i \in 1 .. Len(cs) - 1 : cs[i][5] < cs[i + 1][5]

\* C23: compute_rsi of strictly increasing closes, more of them than the
\* period, is exactly 100, for every period and length.
C23_RisingSeriesRsiIs100 ==
    [][(last'.op = "compute_rsi" /\ Len(cset) > last'.period /\ StrictlyIncreasing(cset)) =>
          (~brk'.none /\ brk'.val = <<100, 1>>)]_vars

\* three rising closes under period 1: one smoothing step after the first average
C23_Witness ==
    /\ last.op = "compute_rsi"
    /\ last.period = 1
    /\ Len(cset) = 3
    /\ StrictlyIncreasing(cset)
    /\ brk = Value(<<100, 1>>)

\* a message that is not valid JSON, has no product_id, is not a trade of the
\* subscribed channel, or has a missing, zero or non-numeric price
Malformed(m) ==
    \/ m.json = "invalid"
    \/ m.pid = ""
    \/ m.type \notin {"match", "last_match"}
    \/ m.price[1] \in {"missing", "text"}
    \/ m.price[2] = 0

\* C22: a malformed message is dropped: the handler returns without calling
\* on_trade and without an exception, and the CandleAgg is unchanged.
C22_MalformedMessageDropped ==
    [][(last'.op \in {"on_message", "on_trade"} /\ Malformed(last'.m)) =>
          (last'.outcome = "return" /\ aggs' = aggs)]_vars

----------------------------------------------------------------------------
(* CircuitBreaker (exchanges/circuit_breaker.py), PositionManager            *)
(* (exchanges/position_manager.py) and execute_with_cb                       *)
(* (exchanges/exchange_utils.py); SpecCB: their methods called in any order  *)
(* from one thread, for two symbols, as the clock advances.                  *)

\* the variables SpecCB leaves alone
nonCB == <<aggVars, dedupVars, brkVars, thrVars, scanVars, feedVars, alertVars, libVars>>

\* CircuitBreaker.failure_threshold of the breakers of the model
failure_threshold == 2

\* CircuitBreaker.recovery_timeout of the breakers of the model
recovery_timeout == 2

\* PositionLimits.cooldown_seconds of the model
cooldown_seconds == 1

\* the clock of the breaker scenarios stops here
CbTime == 4

\* record_failure is called while _fail_count is below this
MaxFails == 3

\* the simulated position stays within this many units
MaxPos == 1

\* _opened_at = None
NoTime == 0 - 1

\* CircuitBreaker.__init__, lines 22-30; `trial` is a history field: a request
\* was allowed in HALF_OPEN and no outcome has been recorded since
NewCB ==
    [state |-> "closed", fail |-> 0, opened_at |-> NoTime, trial |-> FALSE]

\* the state property with the timeout never expiring
state_stays_open(cb, t) ==
    cb

\* the state property at time t, lines 32-46: the breaker after the read (its
\* state field is what the property returns)
state(cb, t) ==
    IF cb.state = "open" /\ cb.opened_at # NoTime /\ t - cb.opened_at >= recovery_timeout
    THEN [cb EXCEPT !.state = "half_open"]
    ELSE cb

\* allow_request at time t, lines 48-53: <<returned value, the breaker after the call>>
allow_request(cb, t) ==
    LET c == state(cb, t)
    IN  <<c.state # "open", [c EXCEPT !.trial = c.trial \/ c.state = "half_open"]>>

\* record_success, lines 55-59
record_success(cb) ==
    [cb EXCEPT !.fail = 0, !.state = "closed", !.opened_at = NoTime, !.trial = FALSE]

\* record_failure opening only above the threshold
record_failure_above(cb, t) ==
    IF cb.fail + 1 > failure_threshold
    THEN [cb EXCEPT !.fail = cb.fail + 1, !.state = "open", !.opened_at = t, !.trial = FALSE]
    ELSE [cb EXCEPT !.fail = cb.fail + 1, !.trial = FALSE]

\* record_failure at time t, lines 66-71
record_failure(cb, t) ==
    IF cb.fail + 1 >= failure_threshold
    THEN [cb EXCEPT !.fail = cb.fail + 1, !.state = "open", !.opened_at = t, !.trial = FALSE]
    ELSE [cb EXCEPT !.fail = cb.fail + 1, !.trial = FALSE]

\* reset, lines 86-89
reset(cb) ==
    [cb EXCEPT !.fail = 0, !.state = "closed", !.opened_at = NoTime, !.trial = FALSE]

\* PositionManager._get_cb, lines 38-43: _circuit_breakers after the call
_get_cb(cbs, symbol) ==
    IF cbs[symbol] = NoCB THEN [cbs EXCEPT ![symbol] = NewCB] ELSE cbs

\* PositionManager.can_trade, lines 83-88, with now_ts = 0 for None and t the clock
can_trade(lts, now_ts, t) ==
    LET n == IF now_ts # 0 THEN now_ts ELSE t
    IN  ~(cooldown_seconds # 0 /\ n - lts < cooldown_seconds)

\* PositionManager.allow_trade_for_symbol, lines 45-50: <<returned value, _circuit_breakers after the call>>
allow_trade_for_symbol(cbs, lts, symbol, now_ts, t) ==
    IF ~can_trade(lts, now_ts, t) THEN <<FALSE, cbs>>
    ELSE LET r == allow_request(_get_cb(cbs, symbol)[symbol], t)
         IN  <<r[1], [cbs EXCEPT ![symbol] = r[2]]>>

\* PositionManager.record_failure_for_symbol, lines 52-55
record_failure_for_symbol(cbs, symbol, t) ==
    [cbs EXCEPT ![symbol] = record_failure(_get_cb(cbs, symbol)[symbol], t)]

\* PositionManager.record_success_for_symbol, lines 57-60
record_success_for_symbol(cbs, symbol) ==
    [cbs EXCEPT ![symbol] = record_success(_get_cb(cbs, symbol)[symbol])]

\* execute_with_cb whose except clause also sees what follows fn: a failure is
\* recorded after the success
execute_with_cb_both(cbs, symbol, outcome, t) ==
    [cbs |-> record_failure_for_symbol(
                 IF outcome = "returns" THEN record_success_for_symbol(cbs, symbol) ELSE cbs,
                 symbol, t),
     result |-> IF outcome = "returns" THEN "returned" ELSE "raised"]

\* execute_with_cb at time t, lines 14-38, with fn returning or raising an
\* Exception: _circuit_breakers after the call, and how the call ends
execute_with_cb(cbs, symbol, outcome, t) ==
    IF outcome = "returns"
    THEN [cbs |-> record_success_for_symbol(cbs, symbol), result |-> "returned"]
    ELSE [cbs |-> record_failure_for_symbol(cbs, symbol, t), result |-> "raised"]

\* PositionManager.record_trade, lines 115-152: the new position_base for an
\* amount bought or sold (avg_entry_price is None exactly when the position is 0)
record_trade(pos, side, amount) ==
    pos + (IF side = "buy" THEN amount ELSE 0 - amount)

\* PositionManager.would_exceed_limits, lines 65-81, for an order of one unit
\* with max_base_amount = MaxPos
would_exceed_limits(pos, side) ==
    LET prospective_base == pos + (IF side = "buy" THEN 1 ELSE 0 - 1)
    IN  prospective_base > MaxPos \/ prospective_base < 0 - MaxPos

\* PositionManager.should_close_for_sl_tp, lines 90-113: <<should_close, side,
\* amount>>; hit says whether current_price is beyond the stop-loss or
\* take-profit level of avg_entry_price
should_close_for_sl_tp(pos, hit) ==
    IF pos = 0 \/ ~hit THEN <<FALSE, "None", 0>>
    ELSE IF pos > 0 THEN <<TRUE, "sell", pos>>
    ELSE <<TRUE, "buy", 0 - pos>>

InitCB ==
    /\ AggIdle
    /\ AlertIdle
    /\ LibIdle
    /\ DedupIdle
    /\ BrkIdle
    /\ ThrIdle
    /\ ScanIdle
    /\ FeedIdle
    /\ CbIdle
    /\ now = cooldown_seconds
    /\ last = [op |-> "init"]

\* the scenario starts with the clock past the first cooldown (_last_trade_ts
\* starts at 0.0 and time.time() is far from it)
\* posman.allow_trade_for_symbol(symbol, now_ts), now_ts omitted or the clock
CbAllowTrade ==
    /\ \E symbol \in Symbols, now_ts \in {0, now} :
        LET r == allow_trade_for_symbol(_circuit_breakers, _last_trade_ts, symbol, now_ts, now)
        IN  /\ _circuit_breakers' = r[2]
            /\ last' = [op |-> "allow_trade_for_symbol", symbol |-> symbol,
                        now_ts |-> now_ts, ret |-> r[1]]
    /\ UNCHANGED <<now, _last_trade_ts, position_base, nonCB>>

\* cb.allow_request() on a breaker that exists
CbAllowRequest ==
    /\ \E symbol \in Symbols :
        /\ _circuit_breakers[symbol] # NoCB
        /\ LET r == allow_request(_circuit_breakers[symbol], now)
           IN  /\ _circuit_breakers' = [_circuit_breakers EXCEPT ![symbol] = r[2]]
               /\ last' = [op |-> "allow_request", symbol |-> symbol, ret |-> r[1]]
    /\ UNCHANGED <<now, _last_trade_ts, position_base, nonCB>>

\* posman.record_success_for_symbol(symbol)
CbRecordSuccess ==
    /\ \E symbol \in Symbols :
        /\ _circuit_breakers' = record_success_for_symbol(_circuit_breakers, symbol)
        /\ last' = [op |-> "record_success", symbol |-> symbol,
                    was |-> state(_get_cb(_circuit_breakers, symbol)[symbol], now).state]
    /\ UNCHANGED <<now, _last_trade_ts, position_base, nonCB>>

\* posman.record_failure_for_symbol(symbol)
CbRecordFailure ==
    /\ \E symbol \in Symbols :
        /\ _get_cb(_circuit_breakers, symbol)[symbol].fail < MaxFails
        /\ _circuit_breakers' = record_failure_for_symbol(_circuit_breakers, symbol, now)
        /\ last' = [op |-> "record_failure", symbol |-> symbol]
    /\ UNCHANGED <<now, _last_trade_ts, position_base, nonCB>>

\* cb.reset() on a breaker that exists
CbReset ==
    /\ \E symbol \in Symbols :
        /\ _circuit_breakers[symbol] # NoCB
        /\ _circuit_breakers' = [_circuit_breakers EXCEPT ![symbol] = reset(_circuit_breakers[symbol])]
        /\ last' = [op |-> "reset", symbol |-> symbol]
    /\ UNCHANGED <<now, _last_trade_ts, position_base, nonCB>>

\* execute_with_cb(posman, symbol, fn) with fn returning or raising
CbExecute ==
    /\ \E symbol \in Symbols, outcome \in {"returns", "raises"} :
        /\ _get_cb(_circuit_breakers, symbol)[symbol].fail < MaxFails
        /\ LET r == execute_with_cb(_circuit_breakers, symbol, outcome, now)
           IN  /\ _circuit_breakers' = r.cbs
               /\ last' = [op |-> "execute_with_cb", symbol |-> symbol,
                           outcome |-> outcome, result |-> r.result]
    /\ UNCHANGED <<now, _last_trade_ts, position_base, nonCB>>

\* posman.record_trade(side, 1, price): the trade time is stamped, the position moves
CbRecordTrade ==
    /\ \E side \in {"buy", "sell"} :
        /\ record_trade(position_base, side, 1) \in (0 - MaxPos) .. MaxPos
        /\ position_base' = record_trade(position_base, side, 1)
    /\ _last_trade_ts' = now
    /\ last' = [op |-> "record_trade"]
    /\ UNCHANGED <<now, _circuit_breakers, nonCB>>

CbTick ==
    /\ now < CbTime
    /\ now' = now + 1
    /\ last' = [op |-> "tick"]
    /\ UNCHANGED <<cbVars, nonCB>>

NextCB ==
    \/ CbAllowTrade
    \/ CbAllowRequest
    \/ CbRecordSuccess
    \/ CbRecordFailure
    \/ CbReset
    \/ CbExecute
    \/ CbRecordTrade
    \/ CbTick

SpecCB == InitCB /\ [][NextCB]_vars

----------------------------------------------------------------------------
(* Claims about the circuit breaker, checked under SpecCB.                   *)

\* the breaker of a symbol as _get_cb would return it
CbOf(cbs, symbol) ==
    _get_cb(cbs, symbol)[symbol]

\* the step recorded a failure for the symbol
FailureRecorded(l, symbol) ==
    /\ l.symbol = symbol
    /\ \/ l.op = "record_failure"
       \/ l.op = "execute_with_cb" /\ l.result = "raised"

\* the step recorded a success for the symbol, or reset its breaker
SuccessRecorded(l, symbol) ==
    /\ l.symbol = symbol
    /\ \/ l.op \in {"record_success", "reset"}
       \/ l.op = "execute_with_cb" /\ l.result = "returned"

\* a step of a breaker method on some symbol
CbStep(l) ==
    l.op \in {"record_failure", "record_success", "reset", "execute_with_cb",
              "allow_request", "allow_trade_for_symbol"}

\* C24: the breaker counts consecutive failures: every recorded failure adds
\* one to the count, a recorded success or a reset from any state (HALF_OPEN
\* included) leaves the breaker CLOSED with the count at zero, and the breaker
\* is CLOSED exactly while the count is below failure_threshold, so that it
\* opens on the failure that reaches the threshold.
C24_CountsConsecutiveFailures ==
    [][\A symbol \in Symbols :
        LET c == _circuit_breakers'[symbol]
            b == CbOf(_circuit_breakers, symbol)
        IN  c # NoCB =>
              /\ (c.state = "closed") <=> (c.fail < failure_threshold)
              /\ (CbStep(last') /\ FailureRecorded(last', symbol)) =>
                    /\ c.fail = b.fail + 1
                    /\ (c.fail >= failure_threshold) => (c.state = "open" /\ c.opened_at = now)
              /\ (CbStep(last') /\ SuccessRecorded(last', symbol)) =>
                    (c.state = "closed" /\ c.fail = 0 /\ c.opened_at = NoTime)]_vars

\* C24 witness: a success has just been recorded on a breaker that read
\* HALF_OPEN, and the breaker is CLOSED again.
C24_Witness ==
    /\ last.op = "record_success"
    /\ last.was = "half_open"
    /\ _circuit_breakers[last.symbol].state = "closed"

\* the breaker is OPEN and the recovery timeout has not elapsed at time t
StillOpen(cb, t) ==
    cb.state = "open" /\ t - cb.opened_at < recovery_timeout

\* the breaker is OPEN and the recovery timeout has elapsed at time t
TimedOut(cb, t) ==
    cb.state = "open" /\ t - cb.opened_at >= recovery_timeout

\* C25: allow_request returns False while the breaker is OPEN within its
\* recovery timeout and in no other case; once the timeout has elapsed the
\* state reads HALF_OPEN and the request is allowed; allow_trade_for_symbol is
\* True exactly when the cooldown has passed and the symbol's breaker allows.
C25_AllowRequest ==
    [][/\ last'.op = "allow_request" =>
            LET b == _circuit_breakers[last'.symbol]
                c == _circuit_breakers'[last'.symbol]
            IN  /\ StillOpen(b, now) => (~last'.ret /\ c.state = "open")
                /\ TimedOut(b, now) => (last'.ret /\ c.state = "half_open")
                /\ ~last'.ret => StillOpen(b, now)
       /\ last'.op = "allow_trade_for_symbol" =>
            LET b == CbOf(_circuit_breakers, last'.symbol)
                n == IF last'.now_ts # 0 THEN last'.now_ts ELSE now
            IN  last'.ret <=> (n - _last_trade_ts >= cooldown_seconds /\ ~StillOpen(b, now))]_vars

\* C25 witness: a request has just been allowed on a breaker whose recovery
\* timeout had elapsed; it reads HALF_OPEN.
C25_Witness ==
    /\ last.op = "allow_request"
    /\ last.ret
    /\ _circuit_breakers[last.symbol].state = "half_open"
    /\ now - _circuit_breakers[last.symbol].opened_at >= recovery_timeout

\* C26: in HALF_OPEN, once one request has been allowed and no outcome has
\* been recorded for it, a further allow_request returns False.
C26_SingleTrial ==
    [][(last'.op = "allow_request"
          /\ _circuit_breakers[last'.symbol].state = "half_open"
          /\ _circuit_breakers[last'.symbol].trial) => ~last'.ret]_vars

\* C27: execute_with_cb records exactly one outcome for its symbol: a success
\* (breaker CLOSED, count zero) when fn returns, one more failure when fn
\* raises, and the call ends as fn did; the breakers of the other symbols are
\* left as they were.
C27_ExecuteRecordsOneOutcome ==
    [][last'.op = "execute_with_cb" =>
         LET b == CbOf(_circuit_breakers, last'.symbol)
             c == _circuit_breakers'[last'.symbol]
         IN  /\ \A o \in Symbols \ {last'.symbol} : _circuit_breakers'[o] = _circuit_breakers[o]
             /\ last'.outcome = "returns" =>
                    /\ last'.result = "returned"
                    /\ c = record_success(b)
             /\ last'.outcome = "raises" =>
                    /\ last'.result = "raised"
                    /\ c = record_failure(b, now)
                    /\ c.fail = b.fail + 1]_vars

\* C27 witness: fn has just raised on a breaker one failure short of the
\* threshold; the failure is recorded and the breaker is OPEN, while the other
\* symbol has a breaker of its own.
C27_Witness ==
    /\ last.op = "execute_with_cb"
    /\ last.result = "raised"
    /\ _circuit_breakers[last.symbol].state = "open"
    /\ _circuit_breakers[last.symbol].fail = failure_threshold
    /\ \E o \in Symbols \ {last.symbol} : _circuit_breakers[o] # NoCB

----------------------------------------------------------------------------
(* The live trading loop of run_live.py (main, lines 223-367) for its one    *)
(* symbol; SpecLive: iterations of the loop with the exchange answering or   *)
(* failing, the combined action in or out of the deadband, and the price     *)
(* beyond the stop-loss / take-profit level or not.                          *)

\* DRY_RUN, line 91: the default
DRY_RUN == TRUE

\* RESOLVED_SYMBOL, line 178
RESOLVED_SYMBOL == "X"

\* an order handed to create_market_order, with the state the symbol's breaker
\* reads at that moment
Submitted(kind, cbs, t, outcome) ==
    [kind |-> kind, cb |-> state(CbOf(cbs, RESOLVED_SYMBOL), t).state, outcome |-> outcome]

\* the position manager after the orders of an iteration so far
LiveState(cbs, lts, pos, orders) ==
    [cbs |-> cbs, lts |-> lts, pos |-> pos, orders |-> orders]

\* lines 334-341 once the pre-checks have passed: the order is executed and,
\* when it went through in a dry run, the simulated trade is recorded
place_order(st, kind, side, amount, outcome, t) ==
    LET x == execute_with_cb(st.cbs, RESOLVED_SYMBOL, outcome, t)
        done == x.result = "returned" /\ DRY_RUN
    IN  LiveState(x.cbs,
                  IF done THEN t ELSE st.lts,
                  IF done THEN record_trade(st.pos, side, amount) ELSE st.pos,
                  Append(st.orders, Submitted(kind, st.cbs, t, outcome)))

\* lines 309-341: the new order of an iteration; sig is "none" when the combined
\* action is within the deadband or gives no order, else the side of the order
new_order(st, sig, outcome, t) ==
    IF sig = "none" THEN st
    ELSE LET r == allow_trade_for_symbol(st.cbs, st.lts, RESOLVED_SYMBOL, 0, t)
             checked == [st EXCEPT !.cbs = r[2]]
         IN  IF ~r[1] THEN checked
             ELSE IF would_exceed_limits(st.pos, sig) THEN checked
             ELSE place_order(checked, "new", sig, 1, outcome, t)

\* lines 343-361: the stop-loss / take-profit close of an iteration
sl_tp_close(st, hit, outcome, t) ==
    LET sc == should_close_for_sl_tp(st.pos, hit)
    IN  IF sc[1] /\ can_trade(st.lts, 0, t) /\ sc[2] # "None"
        THEN place_order(st, "close", sc[2], sc[3], outcome, t)
        ELSE st

\* one iteration, lines 224-367
iteration(st, ticker, sig, o1, hit, o2, t) ==
    IF ticker = "raises" THEN st
    ELSE sl_tp_close(new_order(st, sig, o1, t), hit, o2, t)

InitLive ==
    /\ AggIdle
    /\ AlertIdle
    /\ LibIdle
    /\ DedupIdle
    /\ BrkIdle
    /\ ThrIdle
    /\ ScanIdle
    /\ FeedIdle
    /\ CbIdle
    /\ now = cooldown_seconds
    /\ last = [op |-> "init"]

\* one iteration of the loop, the sleep at its end included (the clock moves on
\* by 0 or 1)
LiveStep ==
    /\ \E ticker \in {"returns", "raises"}, sig \in {"none", "buy", "sell"},
          o1 \in {"returns", "raises"}, hit \in BOOLEAN, o2 \in {"returns", "raises"},
          d \in {0, 1} :
        LET st == iteration(LiveState(_circuit_breakers, _last_trade_ts, position_base, <<>>),
                            ticker, sig, o1, hit, o2, now)
        IN  /\ now + d <= CbTime
            /\ st.cbs[RESOLVED_SYMBOL] # NoCB => st.cbs[RESOLVED_SYMBOL].fail <= MaxFails
            /\ _circuit_breakers' = st.cbs
            /\ _last_trade_ts' = st.lts
            /\ position_base' = st.pos
            /\ now' = now + d
            /\ last' = [op |-> "iteration", ticker |-> ticker, orders |-> st.orders]
    /\ UNCHANGED nonCB

NextLive ==
    LiveStep

SpecLive == InitLive /\ [][NextLive]_vars

\* C30: no order of an iteration, new or stop-loss / take-profit close, is
\* handed to the exchange while the symbol's circuit breaker reads OPEN.
C30_NoOrderWhileOpen ==
    [][last'.op = "iteration" =>
         \A i \in 1 .. Len(last'.orders) : last'.orders[i].cb # "open"]_vars

\* C30, the new order alone: it is never handed to the exchange while the
\* breaker reads OPEN.
C30_NewOrderGuarded ==
    [][last'.op = "iteration" =>
         \A i \in 1 .. Len(last'.orders) :
            last'.orders[i].kind = "new" => last'.orders[i].cb # "open"]_vars

----------------------------------------------------------------------------
(* Claims about the order of the finalized history, checked under SpecAgg.   *)

\* C28: each instrument's finalized history is strictly increasing in bucket
\* start: it never holds two candles of one bucket, nor a candle older than
\* the one before it.
C28_HistoryStrictlyIncreasing ==
    \A p \in Pairs :
        \A i \in 1 .. Len(hist[p]) - 1 : hist[p][i][1] < hist[p][i + 1][1]

----------------------------------------------------------------------------
(* Claims about stopping the feed thread, checked under SpecFeed.            *)

\* C29: once stop() has been called, wherever in its cycle the thread is, the
\* thread opens no new connection and forwards no further trade to on_trade.
C29_NothingAfterStop ==
    [][stop_flag[0] =>
         /\ ~(ws'[0] = "connecting" /\ ws[0] # "connecting")
         /\ last'.op # "on_trade"]_vars

====
